---- MODULE Spec2Model ----
(***************************************************************************)
(* Model of the client-side session machinery of rn-expo-boilerplate:      *)
(*   - the secure MMKV wrapper           (src/lib/mmkv.ts)                 *)
(*   - the Zustand auth store            (src/stores/index.ts)             *)
(*   - the mocked remote authenticator   (src/stores/index.ts)             *)
(* JavaScript values are tagged records; a stored string ("text") is       *)
(* either plain text that JSON.parse rejects, or the JSON text of a value. *)
(***************************************************************************)
EXTENDS Integers, Sequences, FiniteSets, TLC

\* ------------------------------------------------------------------ bounds
MaxOps == 2
MaxTime == 1

Times == 1..MaxTime

\* --------------------------------------------------------------- JS values
Null == [t |-> "null"]
UNDEFINED == "undefined"

\* plain text: JSON.parse throws on it
PlainText(p, n) == [j |-> FALSE, p |-> p, n |-> n]
\* the JSON text of value v: JSON.parse gives v back
JsonText(v) == [j |-> TRUE, v |-> v]
\* the engine's "no such key" (getString returns undefined)
Absent == [j |-> FALSE, p |-> "", n |-> -1]

StrV(text) == [t |-> "string", s |-> text]
Msg(m) == StrV(PlainText(m, 0))

OptionalFields == {"firstName"}

\* JSON.stringify drops the properties whose value is undefined
DropUndefined(o) ==
  [f \in {g \in DOMAIN o : ~(g \in OptionalFields /\ o[g] = UNDEFINED)} |-> o[f]]

JSONstringify(v) ==
  IF v.t = "object" THEN JsonText(DropUndefined(v)) ELSE JsonText(v)

JSONparseThrows(text) == ~text.j
JSONparse(text) == text.v

Truthy(v) == v.t \notin {"null", "undefined"}

Undefined == [t |-> "undefined"]
NumV(n) == [t |-> "number", n |-> n]
BoolV(b) == [t |-> "boolean", b |-> b]
ArrV(items) == [t |-> "array", items |-> items]

\* an engine entry written by the typed number / boolean setter
Raw(v) == [j |-> FALSE, p |-> "raw", n |-> 0, raw |-> v]

\* String(v), the conversion JSON.parse applies to an argument that is not
\* a string: a number, a boolean and null give their JSON text, an object
\* gives "[object Object]", an array gives its elements joined by commas
\* (here: no text for no element, the element's text for one, a text that
\* is not JSON for more)
RECURSIVE ToStringJS(_)
ToStringJS(v) ==
  CASE v.t = "string" -> v.s
    [] v.t \in {"number", "boolean", "null"} -> JsonText(v)
    [] v.t = "undefined" -> PlainText("undefined", 0)
    [] v.t = "object" -> PlainText("[object Object]", 0)
    [] v.t = "array" ->
         IF Len(v.items) = 0 THEN PlainText("", 0)
         ELSE IF Len(v.items) = 1
              THEN IF Truthy(v.items[1]) THEN ToStringJS(v.items[1])
                   ELSE PlainText("", 0)
              ELSE PlainText(",", Len(v.items))

\* safeJsonParse of helpers.ts: JSON.parse(value), the fallback if it throws
safeJsonParse(value, fallback) ==
  IF JSONparseThrows(ToStringJS(value)) THEN fallback
  ELSE JSONparse(ToStringJS(value))

\* an object that refers to itself: JSON.stringify throws on it
Cyclic == [t |-> "cyclic"]
JSONstringifyThrows(v) == v.t = "cyclic"

\* safeJsonStringify of helpers.ts: JSON.stringify(value), null if it throws
safeJsonStringify(value) ==
  IF JSONstringifyThrows(value) THEN Null ELSE StrV(JSONstringify(value))

\* ------------------------------------------------------------ StorageKeys
AUTH_TOKEN == "@auth_token"
USER_DATA == "@user_data"
AUTH_STORAGE == "auth-storage"
SecureKeys == {AUTH_TOKEN, USER_DATA, AUTH_STORAGE}

\* StorageKeys of @/types, the keys the storage utilities are called with
KEY_AUTH_TOKEN == "auth_token"
KEY_USER_DATA == "user_data"
KEY_THEME == "theme"
KEY_LANGUAGE == "language"
KEY_ONBOARDING_COMPLETED == "onboarding_completed"
KEY_BIOMETRIC_ENABLED == "biometric_enabled"
KEY_REFRESH_TOKEN == "refresh_token"

\* the keys the utilities are called with here: the four keys of the
\* allow-list and two others
UtilityKeys == {KEY_AUTH_TOKEN, KEY_REFRESH_TOKEN, KEY_USER_DATA,
                KEY_BIOMETRIC_ENABLED, KEY_THEME, KEY_LANGUAGE}

\* StorageKeys.THEME_MODE of @/lib/mmkv, the key of the theme store
THEME_MODE == "@theme_mode"

\* the keys an engine instance can hold
EngineKeys == SecureKeys \cup UtilityKeys \cup {THEME_MODE}

\* ---------------------------------------------------------- secure wrapper
\* (setItem as it would be without its else branch)
SecureSetItem_StringsOnly(eng, key, value) ==
  IF value.t = "string" THEN [eng EXCEPT ![key] = value.s] ELSE eng

\* secureMMKVStorage.setItem, the engine call succeeding
SecureSetItem(eng, key, value) ==
  [eng EXCEPT ![key] = IF value.t = "string" THEN value.s
                       ELSE JSONstringify(value)]

\* (getItem as it would be without the JSON.parse attempt)
SecureGetItem_NoParse(eng, key, engineThrows) ==
  IF engineThrows THEN Null
  ELSE IF eng[key] = Absent THEN Null
  ELSE StrV(eng[key])

\* secureMMKVStorage.getItem without fallback; engineThrows: getString threw
SecureGetItem(eng, key, engineThrows) ==
  IF engineThrows THEN Null
  ELSE IF eng[key] = Absent THEN Null
  ELSE IF JSONparseThrows(eng[key]) THEN StrV(eng[key])
  ELSE JSONparse(eng[key])

\* secureMMKVStorage.removeItem, the engine call succeeding
SecureRemoveItem(eng, key) == [eng EXCEPT ![key] = Absent]

\* --------------------------------------------------------------- constants
ADMIN == <<"a", "d", "m", "i", "n">>
ADMIN_EMAIL == <<"a", "d", "m", "i", "n", "@", "e", "x", "a", "m", "p", "l", "e", ".", "c", "o", "m">>
INVALID_CREDENTIALS == "Username atau password salah."
MIN_USERNAME_LENGTH == 3

\* -------------------------------------------------------- bounded inputs
Emails == {<<"b", "@", "e">>, <<"b", "e">>}
BOB == <<"b", "o", "b">>

NoArg == [username |-> <<>>, email |-> <<>>, password |-> "",
          confirmPassword |-> "", firstName |-> UNDEFINED]
LoginCredentials ==
  {[NoArg EXCEPT !.username = ADMIN, !.password = "password"],
   [NoArg EXCEPT !.username = ADMIN, !.password = "y"],
   [NoArg EXCEPT !.username = <<"x">>, !.password = "password"]}
RegisterCredentials ==
  {[username |-> <<"b", "o">>, email |-> <<"b", "@", "e">>, password |-> "y",
    confirmPassword |-> "y", firstName |-> "Bob"],
   [username |-> BOB, email |-> <<"b", "@", "e">>, password |-> "y",
    confirmPassword |-> "password", firstName |-> "Bob"],
   [username |-> BOB, email |-> <<"b", "@", "e">>, password |-> "y",
    confirmPassword |-> "y", firstName |-> UNDEFINED]}
ForgotArgs == {[NoArg EXCEPT !.email = e] : e \in Emails}

\* ------------------------------------------------------------ mockAuthAPI
NoUser == [t |-> "object", id |-> "", username |-> <<>>, email |-> <<>>,
           firstName |-> UNDEFINED, avatar |-> Null, role |-> "",
           isEmailVerified |-> FALSE, createdAt |-> ""]
Token(now) == StrV(PlainText("mock-jwt-token-", now))

\* (the mock as it would be with another accepted password)
MockLogin_OtherPassword(credentials, now) ==
  IF credentials.username = ADMIN /\ credentials.password = "admin"
  THEN [ok |-> TRUE,
        user |-> [t |-> "object", id |-> "1", username |-> credentials.username,
                  email |-> ADMIN_EMAIL, firstName |-> "Admin", avatar |-> Null,
                  role |-> "admin", isEmailVerified |-> TRUE,
                  createdAt |-> ToString(now)],
        token |-> Token(now), message |-> ""]
  ELSE [ok |-> FALSE, user |-> NoUser, token |-> Token(now),
        message |-> INVALID_CREDENTIALS]

\* mockAuthAPI.login after its delay: the result or the thrown message
MockLogin(credentials, now) ==
  IF credentials.username = ADMIN /\ credentials.password = "password"
  THEN [ok |-> TRUE,
        user |-> [t |-> "object", id |-> "1", username |-> credentials.username,
                  email |-> ADMIN_EMAIL, firstName |-> "Admin", avatar |-> Null,
                  role |-> "admin", isEmailVerified |-> TRUE,
                  createdAt |-> ToString(now)],
        token |-> Token(now), message |-> ""]
  ELSE [ok |-> FALSE, user |-> NoUser, token |-> Token(now),
        message |-> INVALID_CREDENTIALS]

\* mockAuthAPI.register after its delay
MockRegister(credentials, now) ==
  IF Len(credentials.username) < MIN_USERNAME_LENGTH
  THEN [ok |-> FALSE, user |-> NoUser, token |-> Token(now),
        message |-> "Username must be at least 3 characters"]
  ELSE IF credentials.password # credentials.confirmPassword
  THEN [ok |-> FALSE, user |-> NoUser, token |-> Token(now),
        message |-> "Passwords do not match"]
  ELSE [ok |-> TRUE,
        user |-> [t |-> "object", id |-> ToString(now),
                  username |-> credentials.username, email |-> credentials.email,
                  firstName |-> credentials.firstName, avatar |-> Null,
                  role |-> "user", isEmailVerified |-> FALSE,
                  createdAt |-> ToString(now)],
        token |-> Token(now), message |-> ""]

\* mockAuthAPI.forgotPassword after its delay: TRUE, or throws
MockForgotPasswordOk(email) == \E i \in 1..Len(email) : email[i] = "@"

\* ------------------------------------------------------------- the store
\* user .. isInitialized: the AuthState fields.  secureStorage: the secure
\* MMKV instance, key -> stored text.  ops: the async calls in flight.
\* started: how many async calls were made.  last: the step just taken.
\* sessionOwner: the username of the user handed to the latest completed
\* setItem(USER_DATA, user), <<>> once that key was removed (history only).
\* notified: the states the set() calls of the step just taken published to
\* the subscribers, in order (history only, recorded in SpecObserved).
\* before: the state of the store when the first of the calls now in flight
\* was made, Untracked once anything but the four async operations ran
\* since (history only, recorded in SpecObserved).
\* segments: the current location as useSegments() reports it.
\* routerCalls: the calls the latest run of the route guard's effect made
\* on the router.  effectPending: a dependency of that effect has changed
\* since it last ran.
VARIABLES user, isLoading, isAuthenticated, error, isInitialized,
          secureStorage, ops, started, last, sessionOwner, notified, before,
          segments, routerCalls, effectPending, storage, provider, hook,
          theme

vars == <<user, isLoading, isAuthenticated, error, isInitialized,
          secureStorage, ops, started, last, sessionOwner, notified, before,
          segments, routerCalls, effectPending, storage, provider, hook,
          theme>>

\* the calls that can be made, and ops: how many of each are in flight
\* (waiting in the mock's delay)
Calls ==
  {[kind |-> "login", arg |-> c] : c \in LoginCredentials}
  \cup {[kind |-> "register", arg |-> c] : c \in RegisterCredentials}
  \cup {[kind |-> "logout", arg |-> NoArg]}
  \cup {[kind |-> "forgotPassword", arg |-> e] : e \in ForgotArgs}
NoOps == [o \in Calls |-> 0]
InFlight(kind) == {o \in Calls : o.kind = kind /\ ops[o] > 0}

\* the step just taken: which operation, whether it was called or returned,
\* its argument, what it returned ("threw": an exception left it) and what
\* ended its try block ("none": its last statement; "remote": the mock
\* rejected; a site of Sites: that engine write threw; "read": an engine
\* read threw and was swallowed; "kill": the process was killed)
Event(op, phase, arg, ret, fault) ==
  [op |-> op, phase |-> phase, arg |-> arg, ret |-> ret, fault |-> fault]

\* persist options: partialize, then storage.setItem(name, JSON.stringify(value))
Partialize(u, a, i) ==
  [t |-> "object", version |-> 0,
   state |-> [t |-> "object",
              user |-> IF u.t = "object" THEN DropUndefined(u) ELSE u,
              isAuthenticated |-> a, isInitialized |-> i,
              isLoading |-> FALSE, error |-> Null]]
PersistSetItem(eng, u, a, i) ==
  SecureSetItem(eng, AUTH_STORAGE, StrV(JSONstringify(Partialize(u, a, i))))

\* persist options: storage.getItem(name) = value ? JSON.parse(value) : null,
\* where value is already the parsed result of secureMMKVStorage.getItem
\* (JSON.parse of a non-string converts it to "[object Object]" and throws)
PersistGetItem(eng) ==
  LET value == SecureGetItem(eng, AUTH_STORAGE, FALSE) IN
  IF ~Truthy(value)
  THEN [threw |-> FALSE, found |-> FALSE, v |-> Partialize(Null, FALSE, FALSE)]
  ELSE IF value.t = "string" /\ ~JSONparseThrows(value.s)
       THEN [threw |-> FALSE, found |-> TRUE, v |-> JSONparse(value.s)]
       ELSE [threw |-> TRUE, found |-> FALSE, v |-> Partialize(Null, FALSE, FALSE)]

Untracked == [t |-> "untracked"]

\* useStorage before it is mounted; mounted, its useState values
NoHook ==
  [mounted |-> FALSE, key |-> "", initialValue |-> Undefined,
   storedValue |-> Undefined, isLoading |-> FALSE, error |-> Null]

\* ThemeMode and ColorSchemeName
LIGHT == Msg("light")
DARK == Msg("dark")
SYSTEM == Msg("system")
ThemeModes == {LIGHT, DARK, SYSTEM}
ColorSchemes == {LIGHT, DARK, Null, Undefined}
LIGHT_THEME_COLORS == "LIGHT_THEME_COLORS"
DARK_THEME_COLORS == "DARK_THEME_COLORS"

getIsDark(mode, systemColorScheme) ==
  CASE mode = LIGHT -> FALSE
    [] mode = DARK -> TRUE
    [] OTHER -> systemColorScheme = DARK

getThemeColors(isDark) ==
  IF isDark THEN DARK_THEME_COLORS ELSE LIGHT_THEME_COLORS

\* the theme store as create() leaves it, Appearance reporting the scheme
ThemeInitialState(initialSystemColorScheme) ==
  [mode |-> SYSTEM,
   isDark |-> getIsDark(SYSTEM, initialSystemColorScheme),
   colors |-> getThemeColors(getIsDark(SYSTEM, initialSystemColorScheme)),
   systemColorScheme |-> initialSystemColorScheme,
   isLoading |-> FALSE]

\* initialState of the provider's reducer; checked: the mount effect
\* (checkPersistedAuth) has run; pending: the calls waiting in a delay
ProviderInitialState_NotLoading ==
  [user |-> Null, isLoading |-> FALSE, isAuthenticated |-> FALSE,
   error |-> Null, checked |-> FALSE, pending |-> {}]

ProviderInitialState ==
  [user |-> Null, isLoading |-> TRUE, isAuthenticated |-> FALSE,
   error |-> Null, checked |-> FALSE, pending |-> {}]

Init ==
  /\ user = Null
  /\ isLoading = FALSE
  /\ isAuthenticated = FALSE
  /\ error = Null
  /\ isInitialized = FALSE
  /\ secureStorage = [k \in EngineKeys |-> Absent]
  /\ ops = NoOps
  /\ started = 0
  /\ last = Event("create", "sync", NoArg, "void", "none")
  /\ sessionOwner = <<>>
  /\ notified = <<>>
  /\ before = Untracked
  /\ segments = <<>>
  /\ routerCalls = <<>>
  /\ effectPending = TRUE
  /\ storage = [k \in EngineKeys |-> Absent]
  /\ provider = ProviderInitialState
  /\ hook = NoHook
  /\ theme = ThemeInitialState(Null)

\* ------------------------------------------------------------ environment
\* The engine writes one run of an operation can make, in program order:
\* "start" the persist write of the set() that opens the try block, "first"
\* and "second" the two setItem / removeItem calls, "done" the persist write
\* of the set() that closes the try block, "catch" and "finally" the persist
\* writes of the set() in those blocks.  (persist writes the store to the
\* engine inside every set(), after the state has changed, and lets what
\* storage.setItem throws leave set().)
SiteOrder == <<"start", "first", "second", "done", "catch", "finally">>
Sites == {SiteOrder[i] : i \in 1..Len(SiteOrder)}

\* What the engine does during one run: which of its writes throw an Error
\* (whose message the catch blocks copy into the store), and whether the
\* process is killed between the "first" and the "second" write.
NoFault == [s \in Sites \cup {"kill"} |-> FALSE]
KillFault == [NoFault EXCEPT !["kill"] = TRUE]
Only(k) == [s \in Sites \cup {"kill"} |-> s = SiteOrder[k]]
From(k) ==
  [s \in Sites \cup {"kill"} |-> \E i \in k..Len(SiteOrder) : s = SiteOrder[i]]
\* no write throws; one write throws; every write from some point on throws
Faults ==
  {NoFault, KillFault}
  \cup {Only(k) : k \in 1..Len(SiteOrder)}
  \cup {From(k) : k \in 1..Len(SiteOrder)}
NoFaults == {NoFault}
\* only the setItem / removeItem calls written in the operations throw,
\* one at a time, or the process is killed
EngineCallFaults == {NoFault, KillFault, Only(2), Only(3)}
\* the members of a family F that differ for a setter (one set()), for a
\* call step (start, catch, finally), for initializeAuth (no engine call of
\* its own that throws) and for a resume step (everything after start)
AtSet(F) == F \cap {NoFault, Only(1)}
AtCall(F) == F \cap {NoFault, Only(1), From(1)}
AtInit(F) == F \cap {NoFault, Only(1), From(1), Only(4), From(4), Only(6)}
AtResume(F) == F \ {Only(1), From(1)}
ENGINE_ERROR == "MMKV engine error"

\* create(persist(...)): a new store instance on the engine eng; persist
\* rehydrates from storage.getItem and keeps the initial state when that
\* throws or finds nothing
Hydrate(eng) ==
  LET h == PersistGetItem(eng) IN
  /\ user' = IF h.found THEN h.v.state.user ELSE Null
  /\ isAuthenticated' = IF h.found THEN h.v.state.isAuthenticated ELSE FALSE
  /\ isInitialized' = IF h.found THEN h.v.state.isInitialized ELSE FALSE
  /\ isLoading' = FALSE
  /\ error' = Null
  /\ secureStorage' = eng
  /\ ops' = NoOps

\* the app process is stopped and started again on the same storage
Restart ==
  /\ Hydrate(secureStorage)
  /\ last' = Event("create", "sync", NoArg, "void", "none")
  /\ UNCHANGED <<started, sessionOwner>>

\* ---------------------------------------------------------- basic setters
\* Each is one set(): the state changes, then persist writes it; f.start is
\* that write throwing (the exception leaves the setter).
SetterEvent(name, f) ==
  Event(name, "sync", NoArg,
        IF f.start THEN "threw" ELSE "void", IF f.start THEN "start" ELSE "none")
Persisted(eng, u, a, i, saved) ==
  IF saved THEN PersistSetItem(eng, u, a, i) ELSE eng

setLoading(loading, f) ==
  /\ isLoading' = loading
  /\ secureStorage' =
       Persisted(secureStorage, user, isAuthenticated, isInitialized, ~f.start)
  /\ last' = SetterEvent("setLoading", f)
  /\ UNCHANGED <<user, isAuthenticated, error, isInitialized, ops, started, sessionOwner>>

\* (setUser as it would be with the flag left alone)
setUser_KeepsFlag(u, f) ==
  /\ user' = u
  /\ secureStorage' =
       Persisted(secureStorage, user', isAuthenticated, isInitialized, ~f.start)
  /\ last' = SetterEvent("setUser", f)
  /\ UNCHANGED <<isAuthenticated, isLoading, error, isInitialized, ops, started, sessionOwner>>

setUser(u, f) ==
  /\ user' = u
  /\ isAuthenticated' = (u # Null)
  /\ secureStorage' =
       Persisted(secureStorage, user', isAuthenticated', isInitialized, ~f.start)
  /\ last' = SetterEvent("setUser", f)
  /\ UNCHANGED <<isLoading, error, isInitialized, ops, started, sessionOwner>>

setError(e, f) ==
  /\ error' = e
  /\ secureStorage' =
       Persisted(secureStorage, user, isAuthenticated, isInitialized, ~f.start)
  /\ last' = SetterEvent("setError", f)
  /\ UNCHANGED <<user, isLoading, isAuthenticated, isInitialized, ops, started, sessionOwner>>

\* (clearError as it would be if it ended the loading state too)
clearError_EndsLoading(f) ==
  /\ error' = Null
  /\ isLoading' = FALSE
  /\ secureStorage' =
       Persisted(secureStorage, user, isAuthenticated, isInitialized, ~f.start)
  /\ last' = SetterEvent("clearError", f)
  /\ UNCHANGED <<user, isAuthenticated, isInitialized, ops, started, sessionOwner>>

clearError(f) ==
  /\ error' = Null
  /\ secureStorage' =
       Persisted(secureStorage, user, isAuthenticated, isInitialized, ~f.start)
  /\ last' = SetterEvent("clearError", f)
  /\ UNCHANGED <<user, isLoading, isAuthenticated, isInitialized, ops, started, sessionOwner>>

\* ---------------------------------------------------------- initializeAuth
\* The function has no await: it runs to completion when called.
\* tokenReadThrows / userReadThrows: the engine's getString throws, which
\* secureMMKVStorage.getItem turns into null.

\* (the branch as it would be with || for &&)
InitAuthState_Either(token, userData) ==
  IF Truthy(token) \/ Truthy(userData)
  THEN [user |-> userData, isAuthenticated |-> TRUE]
  ELSE [user |-> Null, isAuthenticated |-> FALSE]

\* if (token && userData) set({user: userData, isAuthenticated: true, ...})
\* else set({user: null, isAuthenticated: false, ...})
InitAuthState(token, userData) ==
  IF Truthy(token) /\ Truthy(userData)
  THEN [user |-> userData, isAuthenticated |-> TRUE]
  ELSE [user |-> Null, isAuthenticated |-> FALSE]

\* (a guard that lets every call through)
SkipsInitialization_Never(initialized) == FALSE

\* const state = get(); if (state.isInitialized) return;
SkipsInitialization(initialized) == initialized

\* try { set({isLoading: true}); the two reads; the branch }
\* catch { set({user: null, isAuthenticated: false, error: "Failed ..."}) }
\* finally { set({isLoading: false, isInitialized: true}) }
initializeAuth(tokenReadThrows, userReadThrows, f) ==
  IF SkipsInitialization(isInitialized)
  THEN /\ last' = Event("initializeAuth", "return", NoArg, "skipped", "none")
       /\ UNCHANGED <<user, isLoading, isAuthenticated, error, isInitialized,
                      secureStorage, ops, started, sessionOwner>>
  ELSE LET token == SecureGetItem(secureStorage, AUTH_TOKEN, tokenReadThrows)
           userData == SecureGetItem(secureStorage, USER_DATA, userReadThrows)
           s == InitAuthState(token, userData)
           thrown == IF f.start THEN "start" ELSE IF f.done THEN "done" ELSE "none"
           failed == thrown # "none"
           escaped == (failed /\ f.catch) \/ f.finally
           saved == (~failed) \/ ~f.catch \/ ~f.finally
       IN /\ user' = IF failed THEN Null ELSE s.user
          /\ isAuthenticated' = IF failed THEN FALSE ELSE s.isAuthenticated
          /\ error' = IF failed THEN Msg("Failed to initialize authentication")
                      ELSE Null
          /\ isLoading' = FALSE
          /\ isInitialized' = TRUE
          /\ secureStorage' =
               Persisted(secureStorage, user', isAuthenticated', TRUE, saved)
          /\ last' = Event("initializeAuth", "return", NoArg,
                           IF escaped THEN "threw" ELSE "void",
                           IF failed THEN thrown
                           ELSE IF tokenReadThrows \/ userReadThrows THEN "read"
                           ELSE "none")
          /\ UNCHANGED <<ops, started, sessionOwner>>

\* ------------------------------------------------- the async operations
\* Each one runs synchronously up to the await of the mock's delay (the
\* call step) and, when the delay has elapsed, from there to its return
\* (the resume step).  Several may be in flight at once.

\* the process dies after the first of the two engine calls of an operation
Killed(eng) ==
  /\ Hydrate(eng)
  /\ last' = Event("create", "sync", NoArg, "void", "kill")
  /\ UNCHANGED <<started, sessionOwner>>

\* `catch (error) { ... }` of the four operations: whatever was thrown in
\* the try block is caught
Catches(thrown) == thrown \in {"remote", "engine"}

\* (the reset as it would be at the end of the try block)
LoadingAfterFinally_OnSuccessOnly(thrown, loading) ==
  IF thrown = "none" THEN FALSE ELSE loading

\* `finally { set({ isLoading: false }) }`: runs however the try block ended
LoadingAfterFinally(thrown, loading) == FALSE

\* (a failure path that also drops the user)
UserAfterSession_ResetOnFailure(success, newUser, current) ==
  IF success THEN newUser ELSE Null

\* login / register: set({user, isAuthenticated: true, error: null}) is the
\* last statement of the try block, the catch block sets error only
UserAfterSession(success, newUser, current) ==
  IF success THEN newUser ELSE current

\* (a catch block that reports a fixed text for every failure)
CatchMessage_FixedText(kind, thrown, remoteMessage) ==
  IF kind = "logout" THEN "Logout failed" ELSE "Login failed"

\* `error instanceof Error ? error.message : "... failed"` of login,
\* register and forgotPassword; logout's catch sets a fixed text
CatchMessage(kind, thrown, remoteMessage) ==
  IF kind = "logout" THEN "Logout failed"
  ELSE IF thrown = "remote" THEN remoteMessage ELSE ENGINE_ERROR

\* The catch and finally blocks of an operation whose try block ended with
\* `thrown`, having brought the store to user u, flag a, error e and the
\* engine to eng; saved: a set() of the try block wrote u and a through
\* persist.  The operation returns (or throws) here.
Settle(kind, arg, thrown, eng, u, a, e, remoteMessage, loading, saved, f) ==
  LET class == IF thrown \in {"none", "remote"} THEN thrown ELSE "engine"
      failed == thrown # "none"
      caught == failed /\ Catches(class)
      escaped == (failed /\ ~caught) \/ (caught /\ f.catch) \/ f.finally
      written == saved \/ (caught /\ ~f.catch) \/ ~f.finally
  IN /\ user' = u
     /\ isAuthenticated' = a
     /\ error' = IF caught THEN Msg(CatchMessage(kind, thrown, remoteMessage)) ELSE e
     /\ isLoading' = LoadingAfterFinally(class, loading)
     /\ secureStorage' = Persisted(eng, u, a, isInitialized, written)
     /\ last' = Event(kind, "return", arg,
                      IF escaped THEN "threw"
                      ELSE IF kind = "logout" THEN "void"
                      ELSE IF failed THEN "false" ELSE "true",
                      thrown)
     /\ UNCHANGED isInitialized

\* (the call step as it would be without isLoading: true in its set())
Call_NoLoading(kind, arg, clearsError, f) ==
  LET e == IF clearsError THEN Null ELSE error IN
  /\ started < MaxOps
  /\ started' = started + 1
  /\ IF f.start
     THEN /\ Settle(kind, arg, "start", secureStorage, user, isAuthenticated,
                    e, "", TRUE, FALSE, f)
          /\ UNCHANGED <<ops, sessionOwner>>
     ELSE /\ ops' = [ops EXCEPT ![[kind |-> kind, arg |-> arg]] = @ + 1]
          /\ isLoading' = isLoading
          /\ error' = e
          /\ secureStorage' =
               PersistSetItem(secureStorage, user, isAuthenticated, isInitialized)
          /\ last' = Event(kind, "call", arg, "pending", "none")
          /\ UNCHANGED <<user, isAuthenticated, isInitialized, sessionOwner>>

\* The call step: set({isLoading: true, error: null}) (logout: without
\* error), then the await.  When the persist write of that set() throws, the
\* try block ends before the remote is called and the call returns at once.
Call(kind, arg, clearsError, f) ==
  LET e == IF clearsError THEN Null ELSE error IN
  /\ started < MaxOps
  /\ started' = started + 1
  /\ IF f.start
     THEN /\ Settle(kind, arg, "start", secureStorage, user, isAuthenticated,
                    e, "", TRUE, FALSE, f)
          /\ UNCHANGED <<ops, sessionOwner>>
     ELSE /\ ops' = [ops EXCEPT ![[kind |-> kind, arg |-> arg]] = @ + 1]
          /\ isLoading' = TRUE
          /\ error' = e
          /\ secureStorage' =
               PersistSetItem(secureStorage, user, isAuthenticated, isInitialized)
          /\ last' = Event(kind, "call", arg, "pending", "none")
          /\ UNCHANGED <<user, isAuthenticated, isInitialized, sessionOwner>>

\* set({isLoading: true, error: null}); await mockAuthAPI.login(credentials)
login(credentials, f) == Call("login", credentials, TRUE, f)
register(credentials, f) == Call("register", credentials, TRUE, f)
\* set({isLoading: true}); await mockAuthAPI.logout()
logout(f) == Call("logout", NoArg, FALSE, f)
forgotPassword(email, f) == Call("forgotPassword", email, TRUE, f)

\* what ends the try block after the await: the two engine calls and the
\* closing set(), in that order
ThrownAfterAwait(f) ==
  IF f.first THEN "first" ELSE IF f.second THEN "second"
  ELSE IF f.done THEN "done" ELSE "none"

\* login / register after the mock has answered with r: the two setItem
\* calls, set({user, ...}), the catch block and the finally block
SessionResume(o, r, f) ==
  LET eng1 == SecureSetItem(secureStorage, AUTH_TOKEN, r.token)
      eng2 == SecureSetItem(eng1, USER_DATA, r.user)
      thrown == IF ~r.ok THEN "remote" ELSE ThrownAfterAwait(f)
      stored == thrown \in {"none", "done"}
      eng == IF thrown \in {"remote", "first"} THEN secureStorage
             ELSE IF thrown = "second" THEN eng1 ELSE eng2
  IN /\ (r.ok \/ ~f.kill)
     /\ IF f.kill THEN Killed(eng1)
        ELSE /\ Settle(o.kind, o.arg, thrown, eng,
                       UserAfterSession(stored, r.user, user),
                       IF stored THEN TRUE ELSE isAuthenticated,
                       IF stored THEN Null ELSE error,
                       r.message, isLoading, thrown = "none", f)
             /\ ops' = [ops EXCEPT ![o] = @ - 1]
             /\ sessionOwner' = IF stored THEN r.user.username ELSE sessionOwner
             /\ UNCHANGED started

loginResume(o, now, f) ==
  /\ o \in InFlight("login")
  /\ SessionResume(o, MockLogin(o.arg, now), f)

registerResume(o, now, f) ==
  /\ o \in InFlight("register")
  /\ SessionResume(o, MockRegister(o.arg, now), f)

\* (logout as it would be without its set({user: null, ...}))
logoutResume_KeepsUser(o, f) ==
  LET eng1 == SecureRemoveItem(secureStorage, AUTH_TOKEN)
      eng2 == SecureRemoveItem(eng1, USER_DATA)
      thrown == ThrownAfterAwait(f)
      eng == IF thrown = "first" THEN secureStorage
             ELSE IF thrown = "second" THEN eng1 ELSE eng2
  IN /\ o \in InFlight("logout")
     /\ IF f.kill THEN Killed(eng1)
        ELSE /\ Settle("logout", NoArg, thrown, eng, user, isAuthenticated,
                       error, "", isLoading, thrown = "none", f)
             /\ ops' = [ops EXCEPT ![o] = @ - 1]
             /\ sessionOwner' = IF eng[USER_DATA] = Absent THEN <<>> ELSE sessionOwner
             /\ UNCHANGED started

\* logout after mockAuthAPI.logout (which only waits) has returned: the two
\* removeItem calls and set({user: null, ...}) in the try block, then
\* catch and finally
logoutResume(o, f) ==
  LET eng1 == SecureRemoveItem(secureStorage, AUTH_TOKEN)
      eng2 == SecureRemoveItem(eng1, USER_DATA)
      thrown == ThrownAfterAwait(f)
      cleared == thrown \in {"none", "done"}
      eng == IF thrown = "first" THEN secureStorage
             ELSE IF thrown = "second" THEN eng1 ELSE eng2
  IN /\ o \in InFlight("logout")
     /\ IF f.kill THEN Killed(eng1)
        ELSE /\ Settle("logout", NoArg, thrown, eng,
                       IF cleared THEN Null ELSE user,
                       IF cleared THEN FALSE ELSE isAuthenticated,
                       IF cleared THEN Null ELSE error,
                       "", isLoading, thrown = "none", f)
             /\ ops' = [ops EXCEPT ![o] = @ - 1]
             /\ sessionOwner' = IF eng[USER_DATA] = Absent THEN <<>> ELSE sessionOwner
             /\ UNCHANGED started

\* (forgotPassword as it would be if it ended the session when it fails)
forgotPasswordResume_EndsSession(o, f) ==
  LET thrown == IF MockForgotPasswordOk(o.arg.email) THEN "none" ELSE "remote"
  IN /\ o \in InFlight("forgotPassword")
     /\ Settle("forgotPassword", o.arg, thrown, secureStorage,
               IF thrown = "none" THEN user ELSE Null,
               IF thrown = "none" THEN isAuthenticated ELSE FALSE, error,
               "Invalid email address", isLoading, FALSE, f)
     /\ ops' = [ops EXCEPT ![o] = @ - 1]
     /\ UNCHANGED <<started, sessionOwner>>

\* forgotPassword after the mock's delay: `return true` or the catch block
forgotPasswordResume(o, f) ==
  LET thrown == IF MockForgotPasswordOk(o.arg.email) THEN "none" ELSE "remote"
  IN /\ o \in InFlight("forgotPassword")
     /\ Settle("forgotPassword", o.arg, thrown, secureStorage, user,
               isAuthenticated, error, "Invalid email address", isLoading,
               FALSE, f)
     /\ ops' = [ops EXCEPT ![o] = @ - 1]
     /\ UNCHANGED <<started, sessionOwner>>

\* ------------------------------------------------------------ subscribers
\* zustand calls every subscriber synchronously inside each set(), with the
\* state that set() produced.
Snapshot(u, a, e, i, l) ==
  [user |-> u, isAuthenticated |-> a, error |-> e, isInitialized |-> i,
   isLoading |-> l]

\* The states published by the set() calls of the step just taken, when no
\* engine write throws: one per set() of the handler, the last one being
\* the state the step ends in.
Notifications ==
  LET pre == Snapshot(user, isAuthenticated, error, isInitialized, isLoading)
      post == Snapshot(user', isAuthenticated', error', isInitialized', isLoading')
      ev == last'
      \* the set() that closes the try block of initializeAuth / login /
      \* register / logout
      done == [pre EXCEPT !.user = user', !.isAuthenticated = isAuthenticated',
                          !.error = Null]
  IN IF ev.op = "create" \/ ev.ret = "skipped" THEN <<>>
     ELSE IF ev.phase \in {"sync", "call"} THEN <<post>>
     ELSE IF ev.op = "initializeAuth"
     THEN <<[pre EXCEPT !.isLoading = TRUE], [done EXCEPT !.isLoading = TRUE], post>>
     ELSE IF ev.fault = "remote" THEN <<[pre EXCEPT !.error = error'], post>>
     ELSE IF ev.op = "forgotPassword" THEN <<post>>
     ELSE <<done, post>>

\* the state in which the calls now in flight started to overlap
Baseline ==
  IF last'.op \notin {"login", "register", "logout", "forgotPassword"}
  THEN Untracked
  ELSE IF last'.phase = "call" /\ ops = NoOps
       THEN Snapshot(user, isAuthenticated, error, isInitialized, isLoading)
       ELSE before

\* What a step of the store does outside the store: the history variables
\* follow it (observed) or stay empty, the location stays, and the route
\* guard's effect is due again when user or isLoading changed.
History(observed) ==
  /\ IF observed
     THEN notified' = Notifications /\ before' = Baseline
     ELSE UNCHANGED <<notified, before>>
  /\ effectPending' = (effectPending \/ user' # user \/ isLoading' # isLoading)
  /\ UNCHANGED <<segments, routerCalls, storage, provider, hook, theme>>

\* ------------------------------------------------------------ route guard
\* ROUTES.AUTH.SIGNIN, ROUTES.TABS.HOME and the segments expo-router reports
\* once it has navigated there
SIGNIN == "/(auth)/signin"
HOME == "/(tabs)"
SegmentsOf(href) ==
  IF href = SIGNIN THEN <<"(auth)", "signin">> ELSE <<"(tabs)">>

\* NAVIGATION_CONFIG.ALLOWED_PAGES: the standalone pages a logged-in user
\* may stay on
ALLOWED_PAGES == {"notification"}

\* the locations the app can be at
Locations ==
  {<<>>, <<"(auth)", "signin">>, <<"(auth)", "forgot-password">>, <<"(tabs)">>,
   <<"(tabs)", "task">>, <<"notification">>, <<"+not-found">>}

RouterCall(method, href) == [method |-> method, href |-> href]

\* (the effect without its loading check)
ProtectedRoute_IgnoresLoading(u, loading, segs) ==
  LET inAuthGroup == Len(segs) > 0 /\ segs[1] = "(auth)"
      inTabsGroup == Len(segs) > 0 /\ segs[1] = "(tabs)"
      currentPage == IF Len(segs) > 0 THEN segs[Len(segs)] ELSE UNDEFINED
  IN IF ~Truthy(u) /\ ~inAuthGroup THEN <<RouterCall("replace", SIGNIN)>>
     ELSE IF Truthy(u) /\ inAuthGroup THEN <<RouterCall("replace", HOME)>>
     ELSE IF /\ Truthy(u) /\ ~inTabsGroup /\ ~inAuthGroup
             /\ currentPage \notin ALLOWED_PAGES
     THEN <<RouterCall("replace", HOME)>>
     ELSE <<>>

\* (the effect as it would be if its last rule did not exempt the tabs group)
ProtectedRoute_TabsNotExempt(u, loading, segs) ==
  LET inAuthGroup == Len(segs) > 0 /\ segs[1] = "(auth)"
      currentPage == IF Len(segs) > 0 THEN segs[Len(segs)] ELSE UNDEFINED
  IN IF loading THEN <<>>
     ELSE IF ~Truthy(u) /\ ~inAuthGroup THEN <<RouterCall("replace", SIGNIN)>>
     ELSE IF Truthy(u) /\ inAuthGroup THEN <<RouterCall("replace", HOME)>>
     ELSE IF /\ Truthy(u) /\ ~inAuthGroup
             /\ currentPage \notin ALLOWED_PAGES
     THEN <<RouterCall("replace", HOME)>>
     ELSE <<>>

\* the body of the effect of useProtectedRoute(user, isLoading): the calls
\* it makes on the router
ProtectedRoute(u, loading, segs) ==
  LET inAuthGroup == Len(segs) > 0 /\ segs[1] = "(auth)"
      inTabsGroup == Len(segs) > 0 /\ segs[1] = "(tabs)"
      currentPage == IF Len(segs) > 0 THEN segs[Len(segs)] ELSE UNDEFINED
  IN IF loading THEN <<>>
     ELSE IF ~Truthy(u) /\ ~inAuthGroup THEN <<RouterCall("replace", SIGNIN)>>
     ELSE IF Truthy(u) /\ inAuthGroup THEN <<RouterCall("replace", HOME)>>
     ELSE IF /\ Truthy(u) /\ ~inTabsGroup /\ ~inAuthGroup
             /\ currentPage \notin ALLOWED_PAGES
     THEN <<RouterCall("replace", HOME)>>
     ELSE <<>>

StoreUnchanged ==
  UNCHANGED <<user, isLoading, isAuthenticated, error, isInitialized,
              secureStorage, ops, started, sessionOwner, notified, before,
              storage, provider, hook, theme>>

\* the effect of useProtectedRoute runs (React runs it after a render in
\* which user, segments or isLoading changed) and the router carries out
\* what it asked for
useProtectedRoute ==
  LET calls == ProtectedRoute(user, isLoading, segments) IN
  /\ effectPending
  /\ routerCalls' = calls
  /\ segments' = IF calls = <<>> THEN segments ELSE SegmentsOf(calls[Len(calls)].href)
  /\ effectPending' = (segments' # segments)
  /\ last' = Event("useProtectedRoute", "effect", NoArg, "void", "none")
  /\ StoreUnchanged

\* the user (or a screen) navigates to another location
navigate(segs) ==
  /\ segs # segments
  /\ segments' = segs
  /\ effectPending' = TRUE
  /\ last' = Event("navigate", "sync", NoArg, "void", "none")
  /\ UNCHANGED routerCalls
  /\ StoreUnchanged

\* --------------------------------------------------------- specifications
AdminCredentials == [NoArg EXCEPT !.username = ADMIN, !.password = "password"]
SetUserArgs == {Null, MockLogin(AdminCredentials, 1).user}
SetErrorArgs == {Null, Msg("custom error")}

NextWith(F, R, observed) ==
  \/ Restart /\ History(observed)
  \/ \E b \in BOOLEAN, f \in AtSet(F) : setLoading(b, f) /\ History(observed)
  \/ \E u \in SetUserArgs, f \in AtSet(F) : setUser(u, f) /\ History(observed)
  \/ \E e \in SetErrorArgs, f \in AtSet(F) : setError(e, f) /\ History(observed)
  \/ \E f \in AtSet(F) : clearError(f) /\ History(observed)
  \/ \E a \in R, b \in R, f \in AtInit(F) : initializeAuth(a, b, f) /\ History(observed)
  \/ \E c \in LoginCredentials, f \in AtCall(F) : login(c, f) /\ History(observed)
  \/ \E c \in RegisterCredentials, f \in AtCall(F) : register(c, f) /\ History(observed)
  \/ \E f \in AtCall(F) : logout(f) /\ History(observed)
  \/ \E e \in ForgotArgs, f \in AtCall(F) : forgotPassword(e, f) /\ History(observed)
  \/ \E o \in Calls, now \in Times, f \in AtResume(F) : loginResume(o, now, f) /\ History(observed)
  \/ \E o \in Calls, now \in Times, f \in AtResume(F) : registerResume(o, now, f) /\ History(observed)
  \/ \E o \in Calls, f \in AtResume(F) : logoutResume(o, f) /\ History(observed)
  \/ \E o \in Calls, f \in AtResume(F) \ {KillFault} : forgotPasswordResume(o, f) /\ History(observed)

\* a setItem or removeItem call of an operation may throw, an engine read
\* may throw, and the process may be killed
Next == NextWith(EngineCallFaults, BOOLEAN, FALSE)
Spec == Init /\ [][Next]_vars

\* as Spec, and the persist writes inside set() may throw as well
NextPersistFaults == NextWith(Faults, BOOLEAN, FALSE)
SpecPersistFaults == Init /\ [][NextPersistFaults]_vars

\* the storage engine never throws and the process is only restarted
\* between operations
NextReliable == NextWith(NoFaults, {FALSE}, FALSE)
SpecReliable == Init /\ [][NextReliable]_vars

\* the store with its subscribers, on a storage engine that never throws
NextObserved == NextWith(NoFaults, {FALSE}, TRUE)
SpecObserved == Init /\ [][NextObserved]_vars

\* the operations of the store without the basic setters setLoading, setUser
\* and setError, on a storage engine that never throws
NextSession ==
  \/ Restart /\ History(FALSE)
  \/ clearError(NoFault) /\ History(FALSE)
  \/ initializeAuth(FALSE, FALSE, NoFault) /\ History(FALSE)
  \/ \E c \in LoginCredentials : login(c, NoFault) /\ History(FALSE)
  \/ \E c \in RegisterCredentials : register(c, NoFault) /\ History(FALSE)
  \/ logout(NoFault) /\ History(FALSE)
  \/ \E e \in ForgotArgs : forgotPassword(e, NoFault) /\ History(FALSE)
  \/ \E o \in Calls, now \in Times : loginResume(o, now, NoFault) /\ History(FALSE)
  \/ \E o \in Calls, now \in Times : registerResume(o, now, NoFault) /\ History(FALSE)
  \/ \E o \in Calls : logoutResume(o, NoFault) /\ History(FALSE)
  \/ \E o \in Calls : forgotPasswordResume(o, NoFault) /\ History(FALSE)
SpecSession == Init /\ [][NextSession]_vars

\* the route guard over a store whose user and isLoading change
NextGuard ==
  \/ \E u \in SetUserArgs : setUser(u, NoFault) /\ History(FALSE)
  \/ \E b \in BOOLEAN : setLoading(b, NoFault) /\ History(FALSE)
  \/ \E segs \in Locations : navigate(segs)
  \/ useProtectedRoute
SpecGuard == Init /\ [][NextGuard]_vars

\* ------------------------------------------------------- standard wrapper
\* getString of the engine: an entry written by the typed number / boolean
\* setter is not a string entry, and what getString makes of it (decoded:
\* no value, or some text) is the engine's business
GetString(entry, decoded) ==
  IF "raw" \in DOMAIN entry THEN decoded ELSE entry

\* fallback ?? null
OrNull(fallback) == IF Truthy(fallback) THEN fallback ELSE Null

\* (setItem as it would be if it stored every value as it is given)
MmkvSetItem_NoStringify(eng, key, value) ==
  [eng EXCEPT ![key] = IF value.t = "string" THEN value.s ELSE Raw(value)]

\* mmkvStorage.setItem, the engine call succeeding
MmkvSetItem(eng, key, value) ==
  [eng EXCEPT ![key] = IF value.t = "string" THEN value.s
                       ELSE IF value.t \in {"number", "boolean"} THEN Raw(value)
                       ELSE JSONstringify(value)]

MmkvGetItem_ParseOrNull(eng, key, fallback, engineThrows, decoded) ==
  IF engineThrows THEN OrNull(fallback)
  ELSE LET stringValue == GetString(eng[key], decoded) IN
       IF stringValue = Absent THEN OrNull(fallback)
       ELSE IF JSONparseThrows(stringValue) THEN OrNull(fallback)
       ELSE JSONparse(stringValue)

\* mmkvStorage.getItem; engineThrows: getString threw
MmkvGetItem(eng, key, fallback, engineThrows, decoded) ==
  IF engineThrows THEN OrNull(fallback)
  ELSE LET stringValue == GetString(eng[key], decoded) IN
       IF stringValue = Absent THEN OrNull(fallback)
       ELSE IF JSONparseThrows(stringValue) THEN StrV(stringValue)
       ELSE JSONparse(stringValue)

\* secureMMKVStorage.getItem with its fallback argument
SecureGetItemOr(eng, key, fallback, engineThrows) ==
  IF engineThrows THEN OrNull(fallback)
  ELSE IF eng[key] = Absent THEN OrNull(fallback)
  ELSE IF JSONparseThrows(eng[key]) THEN StrV(eng[key])
  ELSE JSONparse(eng[key])

\* removeItem and clear of both wrappers, the engine call succeeding
MmkvRemoveItem(eng, key) == [eng EXCEPT ![key] = Absent]
Clear(eng) == [k \in DOMAIN eng |-> Absent]

\* getAllKeys and contains of both wrappers
GetAllKeys(eng, engineThrows) ==
  IF engineThrows THEN {} ELSE {k \in DOMAIN eng : eng[k] # Absent}
Contains(eng, key, engineThrows) ==
  IF engineThrows THEN FALSE ELSE eng[key] # Absent

\* -------------------------------------------------------- storage utilities
\* (isSecureKey as it would be with the token keys only)
isSecureKey_TokensOnly(key) == key \in {KEY_AUTH_TOKEN, KEY_REFRESH_TOKEN}

isSecureKey(key) ==
  key \in {KEY_AUTH_TOKEN, KEY_REFRESH_TOKEN, KEY_USER_DATA,
           KEY_BIOMETRIC_ENABLED}

\* the wrapper a utility picks for a key
NamespaceOf(key) == IF isSecureKey(key) THEN "secure" ELSE "standard"

\* storage.getItem(key) of the wrapper picked for the key
PickedGetItem(std, sec, key, engineThrows) ==
  IF isSecureKey(key) THEN SecureGetItem(sec, key, engineThrows)
  ELSE MmkvGetItem(std, key, Undefined, engineThrows, Absent)

\* the string setStorageItem hands to the wrapper, null if there is none
StringValue(value) ==
  IF value.t = "string" THEN value ELSE safeJsonStringify(value)

\* the value getStorageItem resolves to
StorageItem(std, sec, key, fallback, engineThrows) ==
  LET value == PickedGetItem(std, sec, key, engineThrows) IN
  IF ~Truthy(value) THEN fallback
  ELSE IF fallback.t = "string" THEN value
  ELSE safeJsonParse(value, fallback)

UtilityEvent(op, key, value, touched, ret, engineThrows) ==
  Event(op, "return", [key |-> key, value |-> value, touched |-> touched],
        ret, IF engineThrows THEN "engine" ELSE "none")

\* a storage utility leaves the store, the calls in flight and the route
\* guard alone
OnlyStorage ==
  UNCHANGED <<user, isLoading, isAuthenticated, error, isInitialized, ops,
              started, sessionOwner, notified, before, segments, routerCalls,
              effectPending, provider, hook, theme>>

\* both engines after setItem(key, text) on the wrapper picked for the key
Written(std, sec, key, text) ==
  IF isSecureKey(key) THEN <<std, SecureSetItem(sec, key, text)>>
  ELSE <<MmkvSetItem(std, key, text), sec>>

\* both engines after removeItem(key) on the wrapper picked for the key
Removed(std, sec, key) ==
  IF isSecureKey(key) THEN <<std, SecureRemoveItem(sec, key)>>
  ELSE <<MmkvRemoveItem(std, key), sec>>

setStorageItem(key, value, engineThrows) ==
  LET stringValue == StringValue(value)
      called == Truthy(stringValue)
      done == called /\ ~engineThrows
      after == IF done THEN Written(storage, secureStorage, key, stringValue)
               ELSE <<storage, secureStorage>>
  IN /\ storage' = after[1]
     /\ secureStorage' = after[2]
     /\ last' = UtilityEvent("setStorageItem", key, value,
                             IF called THEN {NamespaceOf(key)} ELSE {},
                             BoolV(done), engineThrows /\ called)
     /\ OnlyStorage

getStorageItem(key, fallback, engineThrows) ==
  /\ last' = UtilityEvent("getStorageItem", key, fallback, {NamespaceOf(key)},
                          StorageItem(storage, secureStorage, key, fallback,
                                      engineThrows),
                          engineThrows)
  /\ UNCHANGED <<storage, secureStorage>>
  /\ OnlyStorage

removeStorageItem(key, engineThrows) ==
  LET after == IF engineThrows THEN <<storage, secureStorage>>
               ELSE Removed(storage, secureStorage, key)
  IN /\ storage' = after[1]
     /\ secureStorage' = after[2]
     /\ last' = UtilityEvent("removeStorageItem", key, Undefined,
                             {NamespaceOf(key)}, BoolV(~engineThrows),
                             engineThrows)
     /\ OnlyStorage

hasStorageItem(key, engineThrows) ==
  /\ last' = UtilityEvent("hasStorageItem", key, Undefined, {NamespaceOf(key)},
                          BoolV(Truthy(PickedGetItem(storage, secureStorage,
                                                     key, engineThrows))),
                          engineThrows)
  /\ UNCHANGED <<storage, secureStorage>>
  /\ OnlyStorage

\* clearStorage: failAt = 1, 2 the clear() that throws, 0 for none
clearStorage(failAt) ==
  /\ storage' = IF failAt = 1 THEN storage ELSE Clear(storage)
  /\ secureStorage' = IF failAt = 0 THEN Clear(secureStorage)
                      ELSE secureStorage
  /\ last' = UtilityEvent("clearStorage", "", Undefined,
                          IF failAt = 1 THEN {"standard"}
                          ELSE {"standard", "secure"},
                          BoolV(failAt = 0), failAt # 0)
  /\ OnlyStorage

\* the keys of a list of keys or of [key, value] pairs
KeysOf(list) == {list[i] : i \in DOMAIN list}
PairKeys(pairs) == {pairs[i][1] : i \in DOMAIN pairs}

\* getMultipleStorageItems: failing, the keys whose engine read throws
getMultipleStorageItems(keys, failing) ==
  LET value(key) == PickedGetItem(storage, secureStorage, key, key \in failing)
      found == {key \in KeysOf(keys) : Truthy(value(key))}
      result == [key \in found |->
                   IF JSONparseThrows(ToStringJS(value(key))) THEN value(key)
                   ELSE JSONparse(ToStringJS(value(key)))]
  IN /\ last' = UtilityEvent("getMultipleStorageItems", keys, Undefined,
                             {NamespaceOf(key) : key \in KeysOf(keys)},
                             [t |-> "object", entries |-> result],
                             failing # {})
     /\ UNCHANGED <<storage, secureStorage>>
     /\ OnlyStorage

\* both engines after the first n pairs are written
RECURSIVE WrittenAll(_, _, _, _)
WrittenAll(std, sec, pairs, n) ==
  IF n = 0 THEN <<std, sec>>
  ELSE LET before_ == WrittenAll(std, sec, pairs, n - 1)
           value == pairs[n][2]
           stringValue == IF Truthy(StringValue(value)) THEN StringValue(value)
                          ELSE StrV(PlainText("", 0))
       IN Written(before_[1], before_[2], pairs[n][1], stringValue)

\* setMultipleStorageItems: failAt the pair whose engine write throws, 0 for
\* none
setMultipleStorageItems(pairs, failAt) ==
  LET n == IF failAt = 0 THEN Len(pairs) ELSE failAt - 1
      reached == IF failAt = 0 THEN Len(pairs) ELSE failAt
      after == WrittenAll(storage, secureStorage, pairs, n)
  IN /\ storage' = after[1]
     /\ secureStorage' = after[2]
     /\ last' = UtilityEvent("setMultipleStorageItems", pairs, Undefined,
                             {NamespaceOf(pairs[i][1]) : i \in 1..reached},
                             BoolV(failAt = 0), failAt # 0)
     /\ OnlyStorage

\* both engines after the first n keys are removed
RECURSIVE RemovedAll(_, _, _, _)
RemovedAll(std, sec, keys, n) ==
  IF n = 0 THEN <<std, sec>>
  ELSE LET before_ == RemovedAll(std, sec, keys, n - 1)
       IN Removed(before_[1], before_[2], keys[n])

\* removeMultipleStorageItems: failAt the key whose engine call throws, 0 for
\* none
removeMultipleStorageItems(keys, failAt) ==
  LET n == IF failAt = 0 THEN Len(keys) ELSE failAt - 1
      reached == IF failAt = 0 THEN Len(keys) ELSE failAt
      after == RemovedAll(storage, secureStorage, keys, n)
  IN /\ storage' = after[1]
     /\ secureStorage' = after[2]
     /\ last' = UtilityEvent("removeMultipleStorageItems", keys, Undefined,
                             {NamespaceOf(keys[i]) : i \in 1..reached},
                             BoolV(failAt = 0), failAt # 0)
     /\ OnlyStorage

\* the values the utilities are called with
HELLO == StrV(PlainText("hello", 0))
Settings == [t |-> "object", id |-> "1", firstName |-> "A"]
UtilityValues ==
  {HELLO, Settings, ArrV(<<NumV(1), NumV(2)>>), NumV(5), BoolV(TRUE), Cyclic}
Fallbacks == {Null, StrV(PlainText("", 0))}

\* the lists the multi-key utilities are called with
KeyLists(K) == {l \in K \X K : l[1] # l[2]}

\* the utilities called with keys of K, values of V and lists of L; X: the
\* sets of keys whose engine read can throw
NextUtilitiesWith(K, V, L, X) ==
  \/ \E k \in K, v \in V, t \in BOOLEAN : setStorageItem(k, v, t)
  \/ \E k \in K, f \in Fallbacks, t \in BOOLEAN : getStorageItem(k, f, t)
  \/ \E k \in K, t \in BOOLEAN : removeStorageItem(k, t)
  \/ \E k \in K, t \in BOOLEAN : hasStorageItem(k, t)
  \/ \E n \in 0..2 : clearStorage(n)
  \/ \E l \in L, x \in X :
       getMultipleStorageItems(l, x \cap KeysOf(l))
  \/ \E l \in L, v \in V, n \in 0..2 :
       setMultipleStorageItems(<<<<l[1], v>>, <<l[2], v>>>>, n)
  \/ \E l \in L, n \in 0..2 : removeMultipleStorageItems(l, n)

\* every key, one value: which engine a call reaches
RoutingLists ==
  {<<KEY_USER_DATA, KEY_THEME>>, <<KEY_LANGUAGE, KEY_BIOMETRIC_ENABLED>>,
   <<KEY_AUTH_TOKEN, KEY_REFRESH_TOKEN>>}
NextRouting == NextUtilitiesWith(UtilityKeys, {Settings}, RoutingLists,
                    {{}, {KEY_USER_DATA}, {KEY_LANGUAGE}})
SpecRouting == Init /\ [][NextRouting]_vars

\* two keys, every value: what a call stores and reads back
RoundTripKeys == {KEY_USER_DATA, KEY_THEME}
NextUtilities ==
  NextUtilitiesWith(RoundTripKeys, UtilityValues, KeyLists(RoundTripKeys),
                    SUBSET RoundTripKeys)
SpecUtilities == Init /\ [][NextUtilities]_vars

\* ------------------------------------------------ the wrappers, called directly
Thrown(what) == [t |-> "thrown", error |-> what]

\* (as it would be if no wrapper operation rethrew what it caught)
Rethrows_Never(op) == FALSE

\* the wrapper operations whose catch block ends in "throw error"
Rethrows(op) == op \in {"setItem", "removeItem", "clear"}

\* what a wrapper operation hands back when the code in its try block threw
Caught(op, what, otherwise) ==
  IF Rethrows(op) THEN Thrown(what) ELSE otherwise

WrapperEvent(op, ns, key, value, ret, what) ==
  Event(op, "sync", [ns |-> ns, key |-> key, value |-> value], ret, what)

\* the engine of a wrapper, and both engines with the engine of one replaced
EngineOf(ns) == IF ns = "secure" THEN secureStorage ELSE storage
Engines(ns, eng) ==
  /\ storage' = IF ns = "standard" THEN eng ELSE storage
  /\ secureStorage' = IF ns = "secure" THEN eng ELSE secureStorage

\* setItem of a wrapper: JSON.stringify throws on a cyclic value, and
\* engineThrows: storage.set threw
setItem(ns, key, value, engineThrows) ==
  LET what == IF JSONstringifyThrows(value) THEN "serialization"
              ELSE IF engineThrows THEN "engine" ELSE "none"
      eng == IF what # "none" THEN EngineOf(ns)
             ELSE IF ns = "secure" THEN SecureSetItem(secureStorage, key, value)
             ELSE MmkvSetItem(storage, key, value)
  IN /\ Engines(ns, eng)
     /\ last' = WrapperEvent("setItem", ns, key, value,
                             IF what = "none" THEN Undefined
                             ELSE Caught("setItem", what, Undefined), what)
     /\ OnlyStorage

\* getItem of a wrapper; decoded: what getString makes of a typed entry
getItem(ns, key, fallback, engineThrows, decoded) ==
  /\ last' = WrapperEvent("getItem", ns, key, fallback,
                          IF ns = "secure"
                          THEN SecureGetItemOr(secureStorage, key, fallback,
                                               engineThrows)
                          ELSE MmkvGetItem(storage, key, fallback,
                                           engineThrows, decoded),
                          IF engineThrows THEN "engine" ELSE "none")
  /\ UNCHANGED <<storage, secureStorage>>
  /\ OnlyStorage

removeItem(ns, key, engineThrows) ==
  /\ Engines(ns, IF engineThrows THEN EngineOf(ns)
                 ELSE MmkvRemoveItem(EngineOf(ns), key))
  /\ last' = WrapperEvent("removeItem", ns, key, Undefined,
                          IF engineThrows
                          THEN Caught("removeItem", "engine", Undefined)
                          ELSE Undefined,
                          IF engineThrows THEN "engine" ELSE "none")
  /\ OnlyStorage

clear(ns, engineThrows) ==
  /\ Engines(ns, IF engineThrows THEN EngineOf(ns) ELSE Clear(EngineOf(ns)))
  /\ last' = WrapperEvent("clear", ns, "", Undefined,
                          IF engineThrows
                          THEN Caught("clear", "engine", Undefined)
                          ELSE Undefined,
                          IF engineThrows THEN "engine" ELSE "none")
  /\ OnlyStorage

\* the array of keys getAllKeys returns, in no particular order
KeyArray(keys) == [t |-> "array", keys |-> keys]

getAllKeys(ns, engineThrows) ==
  /\ last' = WrapperEvent("getAllKeys", ns, "", Undefined,
                          IF engineThrows
                          THEN Caught("getAllKeys", "engine", KeyArray({}))
                          ELSE KeyArray(GetAllKeys(EngineOf(ns), FALSE)),
                          IF engineThrows THEN "engine" ELSE "none")
  /\ UNCHANGED <<storage, secureStorage>>
  /\ OnlyStorage

contains(ns, key, engineThrows) ==
  /\ last' = WrapperEvent("contains", ns, key, Undefined,
                          IF engineThrows
                          THEN Caught("contains", "engine", BoolV(FALSE))
                          ELSE BoolV(Contains(EngineOf(ns), key, FALSE)),
                          IF engineThrows THEN "engine" ELSE "none")
  /\ UNCHANGED <<storage, secureStorage>>
  /\ OnlyStorage

Namespaces == {"standard", "secure"}
WrapperKeys == {KEY_THEME, KEY_USER_DATA}
\* the string "123": text that JSON.parse reads as a number
NUMERAL == StrV(JsonText(NumV(123)))
WrapperValues == {HELLO, Settings, NumV(5), Cyclic}
StringValues == {HELLO, NUMERAL, Msg("")}
WrapperFallbacks == {Undefined, HELLO}
\* what getString can make of a typed entry: no value, or some text
Decodings == {Absent, PlainText("?", 0)}

NextWrappers ==
  \/ \E ns \in Namespaces, k \in WrapperKeys, v \in WrapperValues,
        t \in BOOLEAN : setItem(ns, k, v, t)
  \/ \E ns \in Namespaces, k \in WrapperKeys, f \in WrapperFallbacks,
        t \in BOOLEAN, d \in Decodings : getItem(ns, k, f, t, d)
  \/ \E ns \in Namespaces, k \in WrapperKeys, t \in BOOLEAN :
       removeItem(ns, k, t)
  \/ \E ns \in Namespaces, t \in BOOLEAN : clear(ns, t)
  \/ \E ns \in Namespaces, t \in BOOLEAN : getAllKeys(ns, t)
  \/ \E ns \in Namespaces, k \in WrapperKeys, t \in BOOLEAN :
       contains(ns, k, t)
SpecWrappers == Init /\ [][NextWrappers]_vars

\* the wrappers called with strings only
NextStrings ==
  \/ \E ns \in Namespaces, k \in WrapperKeys, v \in StringValues,
        t \in BOOLEAN : setItem(ns, k, v, t)
  \/ \E ns \in Namespaces, k \in WrapperKeys, f \in WrapperFallbacks,
        t \in BOOLEAN : getItem(ns, k, f, t, Absent)
  \/ \E ns \in Namespaces, k \in WrapperKeys, t \in BOOLEAN :
       removeItem(ns, k, t)
SpecStrings == Init /\ [][NextStrings]_vars

\* ------------------------------------------------------------ AuthProvider
\* authReducer
authReducer(state, type, payload) ==
  CASE type \in {"LOGIN_START", "REGISTER_START"} ->
         [state EXCEPT !.isLoading = TRUE, !.error = Null]
    [] type \in {"LOGIN_SUCCESS", "REGISTER_SUCCESS"} ->
         [state EXCEPT !.isLoading = FALSE, !.user = payload,
                       !.isAuthenticated = TRUE, !.error = Null]
    [] type \in {"LOGIN_FAILURE", "REGISTER_FAILURE"} ->
         [state EXCEPT !.isLoading = FALSE, !.user = Null,
                       !.isAuthenticated = FALSE, !.error = payload]
    [] type = "LOGOUT" ->
         [state EXCEPT !.isLoading = FALSE, !.user = Null,
                       !.isAuthenticated = FALSE, !.error = Null]
    [] type = "CLEAR_ERROR" -> [state EXCEPT !.error = Null]
    [] type = "SET_LOADING" -> [state EXCEPT !.isLoading = payload]

\* the user and the token the login of the useAuth hook makes up
HookUser(credentials, now) ==
  [t |-> "object", id |-> "1", username |-> credentials.username,
   email |-> ADMIN_EMAIL, firstName |-> "Admin", lastName |-> "User",
   avatar |-> Null, role |-> "admin", isEmailVerified |-> TRUE,
   createdAt |-> ToString(now), updatedAt |-> ToString(now)]
HookToken == StrV(PlainText("mock-jwt-token-12345", 0))

\* the calls of the provider that can wait in a delay
LoginCall(credentials) == [kind |-> "login", arg |-> credentials]
LogoutCall == [kind |-> "logout", arg |-> NoArg]

\* the provider's actions leave the store alone, and a change of the
\* provider's user or isLoading makes the effect of its route guard run
OnlyProvider ==
  /\ effectPending' = (effectPending \/ provider'.user # provider.user
                                      \/ provider'.isLoading # provider.isLoading)
  /\ UNCHANGED <<user, isLoading, isAuthenticated, error, isInitialized, ops,
                 started, sessionOwner, notified, before, segments,
                 routerCalls, hook, theme>>

ProviderEvent(op, phase, arg, ret, engineThrows) ==
  Event(op, phase, arg, ret, IF engineThrows THEN "engine" ELSE "none")

\* both engines after setStorageItem(key, value); engineThrows: the engine
\* write threw (setStorageItem then returns false)
Saved(std, sec, key, value, engineThrows) ==
  IF engineThrows \/ ~Truthy(StringValue(value)) THEN <<std, sec>>
  ELSE Written(std, sec, key, StringValue(value))

\* token && userData, for values that are null, a string that is not empty
\* or an object
Both(token, userData) == Truthy(token) /\ Truthy(userData)

\* the effect that runs once when the provider is mounted; readFaults: the
\* keys whose engine read throws, failAt: the removeItem of clearAuthData
\* that throws (0 for none)
checkPersistedAuth(readFaults, failAt) ==
  /\ ~provider.checked
  /\ LET token == StorageItem(storage, secureStorage, KEY_AUTH_TOKEN, Null,
                              KEY_AUTH_TOKEN \in readFaults)
         userData == StorageItem(storage, secureStorage, KEY_USER_DATA, Null,
                                 KEY_USER_DATA \in readFaults)
         loading == authReducer(provider, "SET_LOADING", TRUE)
         keys == <<KEY_AUTH_TOKEN, KEY_USER_DATA>>
         after == IF Both(token, userData) THEN <<storage, secureStorage>>
                  ELSE RemovedAll(storage, secureStorage, keys,
                                  IF failAt = 0 THEN Len(keys) ELSE failAt - 1)
         result == IF Both(token, userData)
                   THEN authReducer(loading, "LOGIN_SUCCESS", userData)
                   ELSE authReducer(loading, "LOGOUT", Null)
     IN /\ provider' = [authReducer(result, "SET_LOADING", FALSE)
                          EXCEPT !.checked = TRUE]
        /\ storage' = after[1]
        /\ secureStorage' = after[2]
        /\ last' = ProviderEvent("checkPersistedAuth", "effect",
                                 [token |-> token, userData |-> userData],
                                 IF Both(token, userData) THEN "LOGIN_SUCCESS"
                                 ELSE "LOGOUT",
                                 readFaults # {}
                                 \/ (~Both(token, userData) /\ failAt # 0))
  /\ OnlyProvider

\* the app is closed and opened again: the provider starts from its initial
\* state, the calls in flight are gone, the engines keep what they hold
restart ==
  /\ provider' = ProviderInitialState
  /\ last' = ProviderEvent("restart", "sync", NoArg, "void", FALSE)
  /\ UNCHANGED <<storage, secureStorage>>
  /\ OnlyProvider

\* login of the provider up to the delay in the hook's login
providerLogin(credentials) ==
  /\ provider.checked
  /\ provider' = [authReducer(provider, "LOGIN_START", Null)
                    EXCEPT !.pending = @ \cup {LoginCall(credentials)}]
  /\ last' = ProviderEvent("providerLogin", "call", credentials, "pending",
                           FALSE)
  /\ UNCHANGED <<storage, secureStorage>>
  /\ OnlyProvider

\* login of the provider from the delay on: the hook saves the token and the
\* user (tokenFails, userFails: the engine write threw) and the provider
\* dispatches the outcome
providerLoginResume(credentials, now, tokenFails, userFails) ==
  /\ LoginCall(credentials) \in provider.pending
  /\ LET ok == credentials.username = ADMIN /\ credentials.password = "password"
         mockUser == HookUser(credentials, now)
         first == Saved(storage, secureStorage, KEY_AUTH_TOKEN, HookToken,
                        tokenFails)
         second == Saved(first[1], first[2], KEY_USER_DATA, mockUser,
                         userFails)
         after == IF ok THEN second ELSE <<storage, secureStorage>>
         result == IF ok THEN authReducer(provider, "LOGIN_SUCCESS", mockUser)
                   ELSE authReducer(provider, "LOGIN_FAILURE",
                                    Msg(INVALID_CREDENTIALS))
     IN /\ provider' = [result EXCEPT !.pending = @ \ {LoginCall(credentials)}]
        /\ storage' = after[1]
        /\ secureStorage' = after[2]
        /\ last' = ProviderEvent("providerLogin", "return", credentials,
                                 IF ok THEN "true" ELSE "false",
                                 ok /\ (tokenFails \/ userFails))
  /\ OnlyProvider

\* logout of the provider up to the delay in the hook's logout
providerLogout ==
  /\ provider.checked
  /\ provider' = [authReducer(provider, "SET_LOADING", TRUE)
                    EXCEPT !.pending = @ \cup {LogoutCall}]
  /\ last' = ProviderEvent("providerLogout", "call", NoArg, "pending", FALSE)
  /\ UNCHANGED <<storage, secureStorage>>
  /\ OnlyProvider

\* logout of the provider from the delay on: clearAuthData, then LOGOUT;
\* failAt: the removeItem that throws (0 for none)
providerLogoutResume(failAt) ==
  /\ LogoutCall \in provider.pending
  /\ LET keys == <<KEY_AUTH_TOKEN, KEY_USER_DATA>>
         after == RemovedAll(storage, secureStorage, keys,
                             IF failAt = 0 THEN Len(keys) ELSE failAt - 1)
     IN /\ provider' = [authReducer(provider, "LOGOUT", Null)
                          EXCEPT !.pending = @ \ {LogoutCall}]
        /\ storage' = after[1]
        /\ secureStorage' = after[2]
        /\ last' = ProviderEvent("providerLogout", "return", NoArg, "void",
                                 failAt # 0)
  /\ OnlyProvider

\* the effect of useProtectedRoute(state.user, state.isLoading) in the
\* provider runs and the router carries out what it asked for
providerProtectedRoute ==
  LET calls == ProtectedRoute(provider.user, provider.isLoading, segments) IN
  /\ effectPending
  /\ routerCalls' = calls
  /\ segments' = IF calls = <<>> THEN segments ELSE SegmentsOf(calls[Len(calls)].href)
  /\ effectPending' = (segments' # segments)
  /\ last' = Event("providerProtectedRoute", "effect", NoArg, "void", "none")
  /\ StoreUnchanged

NextProvider ==
  \/ \E x \in SUBSET {KEY_AUTH_TOKEN, KEY_USER_DATA}, n \in 0..2 :
       checkPersistedAuth(x, n)
  \/ restart
  \/ \E c \in LoginCredentials : providerLogin(c)
  \/ \E c \in LoginCredentials, now \in Times, t1 \in BOOLEAN, t2 \in BOOLEAN :
       providerLoginResume(c, now, t1, t2)
  \/ providerLogout
  \/ \E n \in 0..2 : providerLogoutResume(n)
SpecProvider == Init /\ [][NextProvider]_vars

\* the provider with its route guard
NextProviderGuard ==
  \/ \E x \in SUBSET {KEY_AUTH_TOKEN, KEY_USER_DATA}, n \in 0..2 :
       checkPersistedAuth(x, n)
  \/ restart
  \/ \E c \in LoginCredentials : providerLogin(c)
  \/ \E c \in LoginCredentials, now \in Times, t1 \in BOOLEAN, t2 \in BOOLEAN :
       providerLoginResume(c, now, t1, t2)
  \/ providerLogout
  \/ \E n \in 0..2 : providerLogoutResume(n)
  \/ \E segs \in Locations : navigate(segs)
  \/ providerProtectedRoute
SpecProviderGuard == Init /\ [][NextProviderGuard]_vars

\* --------------------------------------------------------------- useStorage
\* Whether the promise of setStorageItem / removeStorageItem rejects when the
\* value cannot be written: never, the whole body of each is a try block
\* whose catch block returns false.
UtilityRejects(engineThrows) == FALSE

\* the hook leaves the stores, the provider and the route guard alone
OnlyHook ==
  UNCHANGED <<user, isLoading, isAuthenticated, error, isInitialized, ops,
              started, sessionOwner, notified, before, segments, routerCalls,
              effectPending, provider, theme>>

HookEvent(op, value, ret, engineThrows) ==
  UtilityEvent(op, hook'.key, value, {NamespaceOf(hook'.key)}, ret, engineThrows)

\* useStorage(key, initialValue) is mounted and its effect loads the value
useStorage(key, initialValue, engineThrows) ==
  /\ hook' = [mounted |-> TRUE, key |-> key, initialValue |-> initialValue,
              storedValue |-> StorageItem(storage, secureStorage, key,
                                          initialValue, engineThrows),
              isLoading |-> FALSE, error |-> Null]
  /\ last' = HookEvent("useStorage", initialValue, hook'.storedValue,
                       engineThrows)
  /\ UNCHANGED <<storage, secureStorage>>
  /\ OnlyHook

\* setValue(value): the state first, then the save; the catch block runs
\* when the awaited save rejects
setValue(value, engineThrows, readThrows) ==
  LET stringValue == StringValue(value)
      saved == Truthy(stringValue) /\ ~engineThrows
      after == IF saved THEN Written(storage, secureStorage, hook.key, stringValue)
               ELSE <<storage, secureStorage>>
      rejected == ~saved /\ UtilityRejects(engineThrows)
      item == StorageItem(after[1], after[2], hook.key, hook.initialValue,
                          readThrows)
  IN /\ hook.mounted
     /\ storage' = after[1]
     /\ secureStorage' = after[2]
     /\ hook' = IF rejected
                THEN [hook EXCEPT
                        !.error = Msg("Failed to save to storage"),
                        !.storedValue = item]
                ELSE [hook EXCEPT !.error = Null, !.storedValue = value]
     /\ last' = HookEvent("setValue", value, BoolV(saved), engineThrows)
     /\ OnlyHook

\* removeValue(): the state first, then the removal
removeValue(engineThrows) ==
  LET after == IF engineThrows THEN <<storage, secureStorage>>
               ELSE Removed(storage, secureStorage, hook.key)
      rejected == engineThrows /\ UtilityRejects(engineThrows)
  IN /\ hook.mounted
     /\ storage' = after[1]
     /\ secureStorage' = after[2]
     /\ hook' = [hook EXCEPT
                   !.error = IF rejected
                             THEN Msg("Failed to remove from storage")
                             ELSE Null,
                   !.storedValue = hook.initialValue]
     /\ last' = HookEvent("removeValue", Undefined, BoolV(~engineThrows),
                          engineThrows)
     /\ OnlyHook

HookKeys == {KEY_THEME, KEY_AUTH_TOKEN}

NextHook ==
  \/ \E k \in HookKeys, v \in Fallbacks, x \in BOOLEAN : useStorage(k, v, x)
  \/ \E v \in UtilityValues, x \in BOOLEAN, r \in BOOLEAN : setValue(v, x, r)
  \/ \E x \in BOOLEAN : removeValue(x)
SpecHook == Init /\ [][NextHook]_vars

\* -------------------------------------------------------------- theme store
\* what JavaScript takes for true in a condition
ToBoolean(v) ==
  CASE v.t \in {"null", "undefined"} -> FALSE
    [] v.t = "string" -> v.s # PlainText("", 0)
    [] v.t = "boolean" -> v.b
    [] v.t = "number" -> v.n # 0
    [] OTHER -> TRUE

\* the theme store leaves the session, the provider, the hook and the route
\* guard alone
OnlyTheme ==
  UNCHANGED <<user, isLoading, isAuthenticated, error, isInitialized,
              secureStorage, ops, started, sessionOwner, notified, before,
              segments, routerCalls, effectPending, provider, hook>>

ThemeEvent(op, arg, engineThrows) ==
  Event(op, "sync", [key |-> THEME_MODE, value |-> arg, touched |-> {"standard"}],
        "void", IF engineThrows THEN "engine" ELSE "none")

\* the module is loaded again: create() builds the initial state
createThemeStore(initialSystemColorScheme) ==
  /\ theme' = ThemeInitialState(initialSystemColorScheme)
  /\ last' = ThemeEvent("create", initialSystemColorScheme, FALSE)
  /\ UNCHANGED storage
  /\ OnlyTheme

themeSetLoading(loading) ==
  /\ theme' = [theme EXCEPT !.isLoading = loading]
  /\ last' = ThemeEvent("setLoading", BoolV(loading), FALSE)
  /\ UNCHANGED storage
  /\ OnlyTheme

\* set(), then the save; engineThrows: the engine's set threw
setMode(mode, engineThrows) ==
  LET isDark == getIsDark(mode, theme.systemColorScheme)
      colors == getThemeColors(isDark)
  IN /\ theme' = [theme EXCEPT !.mode = mode, !.isDark = isDark,
                               !.colors = colors]
     /\ storage' = IF engineThrows THEN storage
                   ELSE MmkvSetItem(storage, THEME_MODE, mode)
     /\ last' = ThemeEvent("setMode", mode, engineThrows)
     /\ OnlyTheme

toggleTheme(engineThrows) ==
  LET newMode == IF theme.mode = SYSTEM
                 THEN (IF theme.isDark THEN LIGHT ELSE DARK)
                 ELSE IF theme.mode = LIGHT THEN DARK
                 ELSE LIGHT
      newIsDark == getIsDark(newMode, theme.systemColorScheme)
      newColors == getThemeColors(newIsDark)
  IN /\ theme' = [theme EXCEPT !.mode = newMode, !.isDark = newIsDark,
                               !.colors = newColors]
     /\ storage' = IF engineThrows THEN storage
                   ELSE MmkvSetItem(storage, THEME_MODE, newMode)
     /\ last' = ThemeEvent("toggleTheme", newMode, engineThrows)
     /\ OnlyTheme

setSystemColorScheme_KeepsIsDark(colorScheme) ==
  /\ theme' = [theme EXCEPT !.systemColorScheme = colorScheme]
  /\ last' = ThemeEvent("setSystemColorScheme", colorScheme, FALSE)
  /\ UNCHANGED storage
  /\ OnlyTheme

setSystemColorScheme(colorScheme) ==
  LET isDark == getIsDark(theme.mode, colorScheme)
      colors == getThemeColors(isDark)
  IN /\ theme' = [theme EXCEPT !.systemColorScheme = colorScheme,
                               !.isDark = isDark, !.colors = colors]
     /\ last' = ThemeEvent("setSystemColorScheme", colorScheme, FALSE)
     /\ UNCHANGED storage
     /\ OnlyTheme

\* initializeTheme(); systemColorScheme: what Appearance reports; checkThrows,
\* loadThrows: the engine's getString threw in the first, the second read
initializeTheme(systemColorScheme, checkThrows, loadThrows) ==
  LET skipped == /\ ~theme.isLoading
                 /\ theme.mode # SYSTEM
                 /\ ToBoolean(MmkvGetItem(storage, THEME_MODE, Undefined,
                                          checkThrows, Absent))
      savedMode == MmkvGetItem(storage, THEME_MODE, Undefined, loadThrows,
                               Absent)
      mode == IF ToBoolean(savedMode) THEN savedMode ELSE SYSTEM
      isDark == getIsDark(mode, systemColorScheme)
      colors == getThemeColors(isDark)
  IN /\ theme' = IF skipped THEN theme
                 ELSE [mode |-> mode, isDark |-> isDark, colors |-> colors,
                       systemColorScheme |-> systemColorScheme,
                       isLoading |-> FALSE]
     /\ last' = ThemeEvent("initializeTheme", systemColorScheme,
                           checkThrows \/ loadThrows)
     /\ UNCHANGED storage
     /\ OnlyTheme

NextTheme ==
  \/ \E c \in ColorSchemes : createThemeStore(c)
  \/ \E b \in BOOLEAN : themeSetLoading(b)
  \/ \E m \in ThemeModes, t \in BOOLEAN : setMode(m, t)
  \/ \E t \in BOOLEAN : toggleTheme(t)
  \/ \E c \in ColorSchemes : setSystemColorScheme(c)
  \/ \E c \in ColorSchemes, t1 \in BOOLEAN, t2 \in BOOLEAN :
       initializeTheme(c, t1, t2)
SpecTheme == Init /\ [][NextTheme]_vars

\* ------------------------------------------------------------- properties
HasToken == secureStorage[AUTH_TOKEN] # Absent
HasUserData == secureStorage[USER_DATA] # Absent
AsyncOps == {"login", "register", "logout", "forgotPassword"}
Returned(op) == last.op = op /\ last.phase = "return"
RegisterInputValid(c) ==
  Len(c.username) >= MIN_USERNAME_LENGTH /\ c.password = c.confirmPassword

\* C1: in every reachable state of the store, whatever operations and
\* setters ran and however they interleaved, isAuthenticated is true exactly
\* when user is not null.
C1_AuthenticatedIffUser == isAuthenticated <=> (user # Null)

\* C1 witness: a login has just made the store Authenticated while another
\* operation is still in flight.
C1_Witness ==
  /\ Returned("login") /\ last.ret = "true"
  /\ isAuthenticated /\ user # Null
  /\ \E o \in Calls : ops[o] > 0

\* C2 (as claimed): when logout returns, user is null, isAuthenticated is
\* false and the token and user-data keys are absent, whatever failed inside.
C2_LogoutAlwaysClears ==
  Returned("logout") =>
    user = Null /\ ~isAuthenticated /\ ~HasToken /\ ~HasUserData

\* C3: an initializeAuth that performs the startup check ends with
\* isInitialized true, Authenticated only if both the token and the user
\* record are present, and Unauthenticated if either is missing.
C3_InitRequiresBoth ==
  (Returned("initializeAuth") /\ last.ret # "skipped") =>
    /\ isInitialized
    /\ isAuthenticated => (HasToken /\ HasUserData)
    /\ (~HasToken \/ ~HasUserData) => (user = Null /\ ~isAuthenticated)

\* C3 witness: the startup check ran on a token without a user record and
\* left the store Unauthenticated.
C3_Witness ==
  /\ Returned("initializeAuth") /\ last.ret = "void" /\ last.fault = "none"
  /\ HasToken /\ ~HasUserData
  /\ user = Null /\ ~isAuthenticated /\ isInitialized

C5_RestoreRoundTrip ==
  [][(/\ last'.op = "initializeAuth" /\ last'.ret = "void"
      /\ HasToken /\ HasUserData)
     => (/\ isAuthenticated'
         /\ user'.t = "object"
         /\ user'.username = sessionOwner
         /\ ops' = ops /\ started' = started)]_vars

\* C5 witness: after a login as admin, the startup check of a store that
\* has no call in flight restored the admin user.
C5_Witness ==
  /\ Returned("initializeAuth") /\ last.ret = "void"
  /\ isAuthenticated /\ user.t = "object" /\ user.username = ADMIN
  /\ sessionOwner = ADMIN /\ ops = NoOps

\* C6: a login with admin / password returns true, and at its return the
\* store is Authenticated as admin, error is null and the secure namespace
\* holds the token and the serialized user.
C6_AdminLoginSucceeds ==
  (Returned("login") /\ last.arg = AdminCredentials) =>
    /\ last.ret = "true"
    /\ isAuthenticated /\ user # Null /\ user.username = ADMIN
    /\ error = Null
    /\ HasToken
    /\ secureStorage[USER_DATA] = JSONstringify(user)

\* C6 witness: the admin login has returned true.
C6_Witness ==
  /\ Returned("login") /\ last.arg = AdminCredentials /\ last.ret = "true"
  /\ user.username = ADMIN /\ HasToken /\ HasUserData

\* C7 (as claimed): a login with any other pair returns false, sets the
\* invalid-credentials error and leaves user null and isAuthenticated false.
C7_FailedLoginUnauthenticated ==
  (Returned("login") /\ last.arg # AdminCredentials) =>
    /\ last.ret = "false"
    /\ error = Msg(INVALID_CREDENTIALS)
    /\ user = Null /\ ~isAuthenticated

\* C7 (amended): a login with any other pair does not return true and
\* leaves user and isAuthenticated as they were just before it returned;
\* when the remote authenticator rejected it, error is the
\* invalid-credentials message, and it returns false unless a persist write
\* in its catch or finally block threw.
C7_FailedLoginKeepsSession ==
  [][(last'.op = "login" /\ last'.phase = "return" /\ last'.arg # AdminCredentials)
     => (/\ last'.ret \in {"false", "threw"}
         /\ last'.fault \in {"remote", "start"}
         /\ last'.fault = "remote" => error' = Msg(INVALID_CREDENTIALS)
         /\ user' = user /\ isAuthenticated' = isAuthenticated)]_vars

\* C7 witness: a login with a wrong pair returned false on a store that is
\* (still) Authenticated.
C7_Witness ==
  /\ Returned("login") /\ last.arg # AdminCredentials /\ last.ret = "false"
  /\ error = Msg(INVALID_CREDENTIALS)
  /\ isAuthenticated /\ user # Null

\* C8 (as claimed): no register call whose password differs from its
\* confirmation, or whose username is too short, ever waits on the remote
\* authenticator.
C8_InvalidRegisterNeverAtRemote ==
  \A o \in InFlight("register") : RegisterInputValid(o.arg)

\* C9 (as claimed): login, register, logout and forgotPassword never end
\* with an exception leaving them; when the remote rejected or a
\* secure-storage write or delete threw, they return normally (false for the
\* boolean ones) with a non-null error in the store.
C9_NoExceptionEscapes ==
  (last.phase = "return" /\ last.op \in AsyncOps) =>
    /\ last.ret # "threw"
    /\ last.fault # "none" =>
         /\ error # Null
         /\ last.op # "logout" => last.ret = "false"

\* C10: when login, register, logout or forgotPassword returns, on success
\* and on every failure, isLoading is false.
C10_LoadingClearedAtReturn ==
  (last.phase = "return" /\ last.op \in AsyncOps) => ~isLoading

\* C10 witness: a logout whose delete threw returned while another call is
\* still in flight, with isLoading false.
C10_Witness ==
  /\ Returned("logout") /\ last.fault = "first"
  /\ ~isLoading
  /\ \E o \in Calls : ops[o] > 0

\* whether two published states differ in nothing but the isLoading flag
SameButLoading(s, t) == [s EXCEPT !.isLoading = FALSE] = [t EXCEPT !.isLoading = FALSE]

\* C11 (as claimed): every state published during one run of an operation
\* differs only in isLoading from the state before the run or from the
\* state it ends in (an operation with an await is taken run by run: up to
\* the await, and from its resumption to its return).
C11_NoIntermediateState ==
  [][last'.op \in AsyncOps \cup {"initializeAuth"} =>
       \A k \in 1..Len(notified') :
         \/ SameButLoading(notified'[k],
               Snapshot(user, isAuthenticated, error, isInitialized, isLoading))
         \/ SameButLoading(notified'[k],
               Snapshot(user', isAuthenticated', error', isInitialized',
                        isLoading'))]_vars

\* what one call would leave in user, isAuthenticated and error had it run
\* alone from the state b, the mock answering at time now
Alone(o, b, now) ==
  LET r == IF o.kind = "login" THEN MockLogin(o.arg, now)
           ELSE MockRegister(o.arg, now)
  IN IF o.kind = "logout" THEN <<Null, FALSE, Null>>
     ELSE IF o.kind = "forgotPassword"
     THEN <<b.user, b.isAuthenticated,
            IF MockForgotPasswordOk(o.arg.email) THEN Null
            ELSE Msg("Invalid email address")>>
     ELSE IF r.ok THEN <<r.user, TRUE, Null>>
     ELSE <<b.user, b.isAuthenticated, Msg(r.message)>>

\* C12 (as claimed): when the last of the calls in flight returns, user,
\* isAuthenticated and error are what that call would have produced had it
\* run alone from the state in which the calls were started.
C12_LastToCompleteWins ==
  [][(/\ last'.phase = "return" /\ last'.op \in AsyncOps
      /\ ops' = NoOps /\ before # Untracked)
     => \E now \in Times :
          <<user', isAuthenticated', error'>>
            = Alone([kind |-> last'.op, arg |-> last'.arg], before, now)]_vars

\* C12 (amended): a call that returns decides the fields its last update
\* writes, whatever the calls that returned before it left there: a
\* successful login or register decides user, isAuthenticated and error, a
\* logout likewise, a rejected call decides error only and a successful
\* forgotPassword none of the three.
C12_LastWriterWinsPerField ==
  [][(last'.phase = "return" /\ last'.op \in AsyncOps)
     => \E now \in Times :
          LET a == Alone([kind |-> last'.op, arg |-> last'.arg],
                         Snapshot(user, isAuthenticated, error, isInitialized,
                                  isLoading), now)
          IN <<user', isAuthenticated', error'>> =
               IF last'.op = "forgotPassword" /\ last'.ret = "true"
               THEN <<user, isAuthenticated, error>> ELSE a]_vars

\* C12 witness: a rejected login returned last, after a concurrent login
\* had authenticated the store: the user is the earlier call's, the error
\* is its own.
C12_Witness ==
  /\ Returned("login") /\ last.ret = "false" /\ ops = NoOps
  /\ before # Untracked /\ before.user = Null
  /\ user # Null /\ error = Msg(INVALID_CREDENTIALS)

\* C13: an initializeAuth called on a store whose startup check has
\* completed returns before its try block (no read of the storage) and
\* leaves every field of the store, and the storage, as they were, whatever
\* the storage holds by then.
C13_InitializeAuthIdempotent ==
  [][(last'.op = "initializeAuth" /\ isInitialized)
     => (/\ last'.ret = "skipped" /\ last'.fault = "none"
         /\ UNCHANGED <<user, isLoading, isAuthenticated, error, isInitialized,
                        secureStorage>>)]_vars

\* C13 witness: a second initializeAuth returned at once on a store that is
\* Unauthenticated although the storage by now holds a token and a user
\* record.
C13_Witness ==
  /\ Returned("initializeAuth") /\ last.ret = "skipped"
  /\ isInitialized /\ HasToken /\ HasUserData
  /\ user = Null /\ ~isAuthenticated

\* C14 (as claimed): an initializeAuth that performs the startup check on a
\* storage holding exactly one of the token and the user record leaves
\* neither key in the secure namespace.
C14_InitDeletesInconsistentPair ==
  [][(/\ last'.op = "initializeAuth" /\ last'.ret # "skipped"
      /\ HasToken # HasUserData)
     => (~HasToken' /\ ~HasUserData')]_vars

\* the areas of the claim
InAuthArea(segs) == Len(segs) > 0 /\ segs[1] = "(auth)"
InMainArea(segs) == Len(segs) > 0 /\ segs[1] = "(tabs)"
OnAllowedPage(segs) == Len(segs) > 0 /\ segs[Len(segs)] \in ALLOWED_PAGES

\* C15: a run of the route guard issues nothing while isLoading is true;
\* otherwise exactly one replace to the sign-in route when there is no user
\* and the location is outside the auth area, exactly one replace to the
\* home route when there is a user and the location is in the auth area or
\* in none of auth area, main area and allow-list, and nothing in every
\* other case; it never issues a push.
C15_GuardDecision ==
  [][last'.op = "useProtectedRoute" =>
       /\ \A k \in 1..Len(routerCalls') : routerCalls'[k].method = "replace"
       /\ routerCalls' =
            IF isLoading THEN <<>>
            ELSE IF user = Null /\ ~InAuthArea(segments)
            THEN <<RouterCall("replace", SIGNIN)>>
            ELSE IF /\ user # Null
                    /\ \/ InAuthArea(segments)
                       \/ ~(\/ InAuthArea(segments) \/ InMainArea(segments)
                            \/ OnAllowedPage(segments))
            THEN <<RouterCall("replace", HOME)>>
            ELSE <<>>]_vars

\* C15 witness: the guard has just sent a logged-in user from a page outside
\* every area to the home route.
C15_Witness ==
  /\ last.op = "useProtectedRoute" /\ user # Null /\ ~isLoading
  /\ routerCalls = <<RouterCall("replace", HOME)>> /\ segments = <<"(tabs)">>

\* C16: a storage utility called with a key of the allow-list (auth token,
\* refresh token, user data, biometric flag) reaches the secure namespace
\* only and leaves the standard one as it was; called with any other key it
\* reaches the standard namespace only and leaves the secure one as it was.
\* The multi-key variants do so key by key.
AllowList == {"auth_token", "refresh_token", "user_data", "biometric_enabled"}
KeyedUtilities ==
  {"setStorageItem", "getStorageItem", "removeStorageItem", "hasStorageItem"}
MultiKeyUtilities ==
  {"getMultipleStorageItems", "setMultipleStorageItems",
   "removeMultipleStorageItems"}
C16_NamespaceRouting ==
  [][/\ last'.op \in KeyedUtilities =>
          IF last'.arg.key \in AllowList
          THEN last'.arg.touched \subseteq {"secure"} /\ storage' = storage
          ELSE /\ last'.arg.touched \subseteq {"standard"}
               /\ secureStorage' = secureStorage
     /\ last'.op \in MultiKeyUtilities =>
          LET keys == IF last'.op = "setMultipleStorageItems"
                      THEN PairKeys(last'.arg.key) ELSE KeysOf(last'.arg.key)
          IN /\ "secure" \in last'.arg.touched => keys \cap AllowList # {}
             /\ "standard" \in last'.arg.touched => keys \ AllowList # {}
             /\ \A k \in EngineKeys :
                  IF k \in AllowList THEN storage'[k] = storage[k]
                  ELSE secureStorage'[k] = secureStorage[k]]_vars
C16_Witness ==
  /\ last.op = "setMultipleStorageItems"
  /\ last.ret = BoolV(TRUE)
  /\ last.arg.touched = {"secure", "standard"}
  /\ secureStorage[KEY_USER_DATA] # Absent
  /\ storage[KEY_USER_DATA] = Absent
  /\ storage[KEY_THEME] # Absent
  /\ secureStorage[KEY_THEME] = Absent

\* C17: on either wrapper, getItem(k) right after setItem(k, v) of an object
\* v, the engine working, returns a value equal to v.
C17_WrapperRoundTrip ==
  [][(/\ last'.op = "getItem" /\ last'.fault = "none"
      /\ last.op = "setItem" /\ last.fault = "none"
      /\ last'.arg.ns = last.arg.ns /\ last'.arg.key = last.arg.key
      /\ last.arg.value.t = "object")
     => last'.ret = last.arg.value]_vars
C17_Witness ==
  /\ last.op = "getItem"
  /\ last.arg.ns = "standard"
  /\ last.arg.key = KEY_THEME
  /\ last.fault = "none"
  /\ last.ret = Settings
  /\ storage[KEY_THEME] = JsonText(Settings)

\* C18: getStorageItem(k, f) right after a setStorageItem(k, v) that returned
\* true, v an object, an array, a number or a boolean and the engine read
\* working, resolves to a value equal to v (so getUserData() after
\* saveUserData(u) resolves to u).
C18_UtilityRoundTrip ==
  [][(/\ last'.op = "getStorageItem" /\ last'.fault = "none"
      /\ last.op = "setStorageItem" /\ last.ret = BoolV(TRUE)
      /\ last'.arg.key = last.arg.key
      /\ last.arg.value.t \in {"object", "array", "number", "boolean"})
     => last'.ret = last.arg.value]_vars

\* C19: getItem, getAllKeys and contains of a wrapper never throw: on a
\* missing key or an engine error they return the fallback (null without
\* one), the empty list and false; setItem, removeItem and clear hand an
\* engine or serialization error on to the caller.
C19_ErrorPolicy ==
  [][/\ last'.op \in {"getItem", "getAllKeys", "contains"} =>
          /\ last'.ret.t # "thrown"
          /\ (last'.op = "getItem"
               /\ (last'.fault = "engine"
                    \/ EngineOf(last'.arg.ns)[last'.arg.key] = Absent))
             => last'.ret = IF last'.arg.value = Undefined THEN Null
                            ELSE last'.arg.value
          /\ (last'.op = "getAllKeys" /\ last'.fault = "engine")
             => last'.ret = KeyArray({})
          /\ (last'.op = "contains"
               /\ (last'.fault = "engine"
                    \/ EngineOf(last'.arg.ns)[last'.arg.key] = Absent))
             => last'.ret = BoolV(FALSE)
     /\ (last'.op \in {"setItem", "removeItem", "clear"}
         /\ last'.fault # "none")
        => last'.ret = Thrown(last'.fault)]_vars
C19_Witness ==
  /\ last.op = "setItem"
  /\ last.fault = "serialization"
  /\ last.ret = Thrown("serialization")
  /\ last.arg.value = Cyclic
  /\ EngineOf(last.arg.ns)[last.arg.key] # Absent

\* C20: when the secure namespace holds the token and the user a successful
\* login of the provider saved, the startup check, the engine working,
\* dispatches LOGIN_SUCCESS with that user: the provider ends with the user
\* set and isAuthenticated true, and the stored token and user stay.
SavedLogin(now) ==
  /\ secureStorage[KEY_AUTH_TOKEN] = HookToken.s
  /\ secureStorage[KEY_USER_DATA] =
       JsonText(HookUser([NoArg EXCEPT !.username = ADMIN,
                                       !.password = "password"], now))
C20_StartupRestoresLogin ==
  [][\A now \in Times :
       (last'.op = "checkPersistedAuth" /\ last'.fault = "none"
        /\ SavedLogin(now))
       => /\ last'.ret = "LOGIN_SUCCESS"
          /\ provider'.user = JSONparse(secureStorage[KEY_USER_DATA])
          /\ provider'.isAuthenticated
          /\ UNCHANGED <<storage, secureStorage>>]_vars

\* C21: no step of forgotPassword, the call or its return, succeeding or
\* failing, changes user, isAuthenticated, isInitialized or the token and
\* user entries of the secure namespace.
C21_ForgotPasswordKeepsSession ==
  [][last'.op = "forgotPassword" =>
       /\ UNCHANGED <<user, isAuthenticated, isInitialized>>
       /\ secureStorage'[AUTH_TOKEN] = secureStorage[AUTH_TOKEN]
       /\ secureStorage'[USER_DATA] = secureStorage[USER_DATA]]_vars
C21_Witness ==
  /\ Returned("forgotPassword")
  /\ last.ret = "false"
  /\ user # Null
  /\ isAuthenticated
  /\ HasToken
  /\ HasUserData

\* C22 as stated: clearError sets error to null and leaves user,
\* isAuthenticated, isLoading, isInitialized and every entry of the secure
\* namespace as they were.
C22_ClearErrorOnly ==
  [][last'.op = "clearError" =>
       /\ error' = Null
       /\ UNCHANGED <<user, isAuthenticated, isLoading, isInitialized,
                      secureStorage>>]_vars

\* C22 amended: clearError sets error to null and leaves user,
\* isAuthenticated, isLoading, isInitialized and the token and user entries
\* of the secure namespace as they were; the one entry it can change is the
\* record the persist middleware keeps, which becomes the record of the
\* current user, isAuthenticated and isInitialized.
C22_ClearErrorKeepsSession ==
  [][last'.op = "clearError" =>
       /\ error' = Null
       /\ UNCHANGED <<user, isAuthenticated, isLoading, isInitialized>>
       /\ \A k \in EngineKeys \ {AUTH_STORAGE} :
            secureStorage'[k] = secureStorage[k]
       /\ secureStorage'[AUTH_STORAGE] \in
            {secureStorage[AUTH_STORAGE],
             JSONstringify(Partialize(user, isAuthenticated, isInitialized))}
     ]_vars
C22_Witness ==
  /\ last.op = "clearError"
  /\ last.ret = "void"
  /\ error = Null
  /\ isLoading
  /\ isAuthenticated
  /\ HasToken
  /\ secureStorage[AUTH_STORAGE] # Absent

\* C23: whatever initializeAuth, login, register, logout, forgotPassword and
\* clearError calls have run and in whatever order their steps interleaved,
\* no storage operation failing, a store with isAuthenticated true has both
\* the token and the user record in the secure namespace.
C23_AuthenticatedIsPersisted == isAuthenticated => (HasToken /\ HasUserData)
C23_Witness ==
  /\ Returned("login")
  /\ last.ret = "true"
  /\ started = MaxOps
  /\ ops = NoOps
  /\ isAuthenticated
  /\ HasToken
  /\ HasUserData

\* C24 as stated: isLoading is true in every state in which a login,
\* register, logout or forgotPassword call is waiting for the remote
\* authenticator, also when several are.
C24_LoadingWhileInFlight == ops # NoOps => isLoading

\* C24 amended: a login, register, logout or forgotPassword call sets
\* isLoading to true as it starts to wait, and isLoading then stays true
\* until one of these operations returns, initializeAuth runs, setLoading is
\* called or the process is restarted.
C24_LoadingUntilNextReturn ==
  [][/\ last'.phase = "call" => (isLoading' /\ ops' # NoOps)
     /\ (isLoading /\ last'.phase # "return"
         /\ last'.op \notin {"initializeAuth", "setLoading", "create"})
        => isLoading']_vars
C24_Witness ==
  /\ last.op = "clearError"
  /\ ops # NoOps
  /\ isLoading
  /\ started = MaxOps

\* C25: a login or register call that the remote authenticator rejects
\* changes neither user, isAuthenticated nor the token and user entries of
\* the secure namespace, in the step that starts it or in the step that
\* returns from it: what it writes is error and isLoading.
C25_RejectedCallKeepsSession ==
  [][(/\ last'.op \in {"login", "register"}
      /\ \/ last'.phase = "call"
         \/ last'.phase = "return" /\ last'.fault = "remote")
     => /\ UNCHANGED <<user, isAuthenticated, isInitialized>>
        /\ secureStorage'[AUTH_TOKEN] = secureStorage[AUTH_TOKEN]
        /\ secureStorage'[USER_DATA] = secureStorage[USER_DATA]
        /\ last'.phase = "return" => (error' # Null /\ ~isLoading')]_vars
C25_Witness ==
  /\ Returned("register")
  /\ last.fault = "remote"
  /\ last.ret = "false"
  /\ isAuthenticated
  /\ user.username = ADMIN
  /\ HasToken
  /\ HasUserData

\* C26: a run of the route guard with isLoading false issues at most one
\* replace and ends on a location of the auth area when there is no user,
\* and of the main area or on an allow-listed page when there is one; a run
\* that follows a run that redirected issues nothing.
C26_GuardConverges ==
  [][(last'.op = "useProtectedRoute" /\ ~isLoading) =>
       /\ Len(routerCalls') <= 1
       /\ user = Null => InAuthArea(segments')
       /\ user # Null => (InMainArea(segments') \/ OnAllowedPage(segments'))
       /\ (last.op = "useProtectedRoute" /\ routerCalls # <<>>)
          => (routerCalls' = <<>> /\ segments' = segments)]_vars
C26_Witness ==
  /\ last.op = "useProtectedRoute"
  /\ ~isLoading
  /\ user = Null
  /\ routerCalls = <<RouterCall("replace", SIGNIN)>>
  /\ segments = <<"(auth)", "signin">>
  /\ effectPending

\* C27: from the provider's initial state until checkPersistedAuth has
\* dispatched its result the provider's isLoading is true, and a run of the
\* provider's route guard in that time issues no navigation: a user whose
\* session is stored is not sent to sign-in before the check has finished.
C27_NoRedirectBeforeCheck ==
  [][/\ ~provider'.checked => provider'.isLoading
     /\ (last'.op = "providerProtectedRoute" /\ ~provider.checked)
        => (routerCalls' = <<>> /\ segments' = segments)]_vars
C27_Witness ==
  /\ last.op = "providerProtectedRoute"
  /\ ~provider.checked
  /\ provider.user = Null
  /\ segments = <<"(tabs)", "task">>
  /\ routerCalls = <<>>
  /\ secureStorage[KEY_AUTH_TOKEN] # Absent
  /\ secureStorage[KEY_USER_DATA] # Absent

\* C28: when the save of setValue fails, the hook has afterwards recorded an
\* error and storedValue is what getStorageItem returns for the hook's key.
C28_RevertOnFailedSave ==
  (last.op = "setValue" /\ last.ret = BoolV(FALSE)) =>
    /\ hook.error # Null
    /\ hook.storedValue = StorageItem(storage, secureStorage, hook.key,
                                      hook.initialValue, FALSE)

\* C29: on either wrapper, getItem(k) right after setItem(k, s) of a string
\* s, the engine working, returns the string s itself, also when s is valid
\* JSON text.
C29_StringRoundTrip ==
  [][(/\ last'.op = "getItem" /\ last'.fault = "none"
      /\ last.op = "setItem" /\ last.fault = "none"
      /\ last'.arg.ns = last.arg.ns /\ last'.arg.key = last.arg.key
      /\ last.arg.value.t = "string")
     => last'.ret = last.arg.value]_vars
\* C29 as amended: the string comes back itself when it is not valid JSON
\* text, and as the value JSON.parse reads from it when it is.
C29_PlainStringRoundTrip ==
  [][(/\ last'.op = "getItem" /\ last'.fault = "none"
      /\ last.op = "setItem" /\ last.fault = "none"
      /\ last'.arg.ns = last.arg.ns /\ last'.arg.key = last.arg.key
      /\ last.arg.value.t = "string")
     => last'.ret = IF JSONparseThrows(last.arg.value.s) THEN last.arg.value
                    ELSE JSONparse(last.arg.value.s)]_vars
C29_Witness ==
  /\ last.op = "getItem"
  /\ last.arg.ns = "standard"
  /\ last.arg.key = KEY_THEME
  /\ last.fault = "none"
  /\ last.ret = HELLO
  /\ storage[KEY_THEME] = PlainText("hello", 0)

\* C30: in every state of the theme store mode is light, dark or system,
\* isDark is true exactly when mode is dark, or mode is system and the system
\* colour scheme is dark, and colors is the dark palette exactly when isDark
\* is true.
C30_ThemeConsistent ==
  /\ theme.mode \in {Msg("light"), Msg("dark"), Msg("system")}
  /\ theme.isDark <=> \/ theme.mode = Msg("dark")
                      \/ /\ theme.mode = Msg("system")
                         /\ theme.systemColorScheme = Msg("dark")
  /\ (theme.colors = DARK_THEME_COLORS) <=> theme.isDark
  /\ theme.colors \in {DARK_THEME_COLORS, LIGHT_THEME_COLORS}
C30_Witness ==
  /\ last.op = "initializeTheme"
  /\ theme.mode = DARK
  /\ theme.systemColorScheme = LIGHT
  /\ theme.isDark
  /\ theme.colors = DARK_THEME_COLORS
  /\ storage[THEME_MODE] = PlainText("dark", 0)

====
